---- MODULE Spec2Model ----
(***************************************************************************)
(* Verification model of the famemeter collection and enrichment pipeline. *)
(*                                                                         *)
(* The module holds several specifications over one set of variables; each *)
(* specification drives one component and leaves the others idle:          *)
(*   SpecRetry   retry_with_backoff (Google search and YouTube variants)   *)
(*   SpecCB      the two CircuitBreaker classes (Instagram and Threads)    *)
(*   SpecIG      one run of the Instagram scraper                          *)
(*   SpecGS      one run of the Google search lambda_handler               *)
(*   SpecEnrich  the store, its change feed and the post-processor         *)
(***************************************************************************)
EXTENDS Integers, Sequences, FiniteSets, TLC

None == "None"
\* The value None where a text is expected (a text is a sequence of fragments).
NoText == <<"<None>">>

(***************************************************************************)
(* Bounds of the model.                                                    *)
(***************************************************************************)
MaxRetries == 3
MaxBaseDelay == 2
MaxThreshold == 3
MaxTimeout == 2
MaxTime == 5
MaxOps == 6
MaxUpdates == 2
MaxRedeliveries == 1
MaxSubjects == 4
MaxAccounts == 1
MaxLogins == 1
MaxCelebrities == 2
MaxProfiles == 1
MaxProxies == 1
MaxKeys == 2
MaxBatch == 2
MaxFields == 11
MaxSelections == 3
MaxRecorded == 2
MaxRequests == 50
MaxEntries == 2
MaxPicks == 3
MaxWorkers == 2

(***************************************************************************)
(* Error texts.  A text is a sequence of fragments, cut so that the two    *)
(* substrings the code searches for ('Invalid', 'API key') are fragments   *)
(* of their own; `needle in text` is then membership of the fragment.      *)
(***************************************************************************)
TxtInvalidApiKey == <<"Invalid", " ", "API key">>
TxtNoValidKeys == <<"No valid ", "API key", "s available">>
TxtApiErrorInvalid == <<"API error: ", "Invalid", " value">>
TxtApiTimeout == <<"API timeout">>
TxtRateLimited429 == <<"Rate limited (429)">>
TxtHttp500 == <<"HTTP 500">>
TxtChannelNotFound == <<"Channel not found">>

ErrorTexts ==
  {TxtInvalidApiKey, TxtNoValidKeys, TxtApiErrorInvalid, TxtApiTimeout, TxtRateLimited429}

\* Python `needle in text` for a str text.
Contains(text, needle) == \E i \in DOMAIN text : text[i] = needle

VARIABLES
  \* ---- retry_with_backoff --------------------------------------------
  variant,      \* "google" or "youtube": which copy of retry_with_backoff runs
  max_retries,  \* argument max_retries
  base_delay,   \* argument base_delay
  attempt,      \* loop variable of `for attempt in range(max_retries)`
  result,       \* local `result`; "unbound" until func() has returned once
  rpc,          \* "loop" while iterating, "returned" or "raised" afterwards
  retval,       \* the value handed back to the caller
  sleeps,       \* the delays passed to time.sleep, in order
  history,      \* what each func() call did: a result record or "raise"
  \* ---- CircuitBreaker objects on their own ----------------------------
  cb_kind,      \* "instagram" or "threads": the class the behaviour exercises
  cb,           \* the Instagram CircuitBreaker instance (its attributes)
  tcb,          \* the Threads CircuitBreaker instance (its attributes)
  now,          \* the clock: datetime.utcnow() / time.time(), in seconds
  cb_op,        \* history: the last method called on the breaker
  cb_ret,       \* history: what that call returned
  cb_prev,      \* history: the instance before that call
  cb_at,        \* history: the clock at that call
  cb_streak,    \* history: failures recorded in a row since the breaker last was
                \* closed with count 0 (construction, success, cooldown reset)
  cb_n,         \* history: number of calls made
  \* ---- store, change feed and post-processor --------------------------
  en_store,     \* the table: key -> item, NoItem where nothing is stored
  en_feed,      \* stream records not yet consumed
  en_updates,   \* history: update_item calls made per key
  en_redelivered, \* history: deliveries that left the record in the feed
  use_comprehend, \* USE_AWS_COMPREHEND
  en_first,     \* history: per key, the values its first update stored
  en_seen,      \* history: what the updates for a record delivered again stored
  \* ---- one invocation of the post-processor with a batch ----------------
  bp_pc,        \* "start"; "loop": in the for loop of lambda_handler; "done"
  bp_total,     \* len(records)
  bp_idx,       \* records the loop has handled
  bp_counts,    \* success_count, error_count
  bp_code,      \* statusCode of the response, 0 while running
  bp_outcomes,  \* history: how each record of the batch fared
  bp_last,      \* history: the record of the last iteration, NoItem when it
                \* could not be read
  \* ---- one call of calculate_weight -----------------------------------
  wt_pc,        \* "call" or "returned"
  wt_raw_text,  \* argument raw_text
  wt_source,    \* argument source
  wt_weight,    \* the value returned, in hundredths
  \* ---- APIKeyRotationManager --------------------------------------------
  kr_pc,        \* "ready" once constructed
  strategy,     \* self.strategy
  keys,         \* len(self.keys); the keys are 1..keys in load order
  current_index, \* self.current_index
  key_stats,    \* self.key_stats: key -> requests, errors, last_error, age of
                \* last_error_time ("none", "fresh": less than an hour,
                \* "hour": exactly one hour, "stale": more than an hour)
  rate_limit_threshold, \* self.rate_limit_threshold
  kr_issued,    \* history: the results of get_next_key, 0 for None
  kr_recorded,  \* history: the number of record_request calls made
  kr_skip,      \* the last should_skip_key call: key, result, statistics before
  \* ---- workers sharing one APIKeyRotationManager -----------------------
  cw_pc,        \* per worker: where it stands in get_next_key / record_request
  cw_key,       \* per worker: the key get_next_key selected, 0 before
  cw_loaded,    \* per worker: the value it has read and not yet written back
  cw_success,   \* per worker: argument success of its record_request
  cw_calls,     \* history, per key: the record_request calls made and how many
                \* of them with success=False
  \* ---- ParallelScraper.run (parallel_scraper.py) ----------------------
  ps_pc,        \* "run" while run() is executing, "done" once it returned
  num_workers,  \* self.num_workers
  ps_task,      \* per submitted task: "queued", "counting" (its worker has
                \* read the counter it is about to write), "returned",
                \* "raised", "collected"
  ps_status,    \* per task: 'status' of the dict _process_celebrity returns
  ps_loaded,    \* per task: the counter value its worker has read
  ps_stats,     \* self.stats: total, success, errors
  ps_caught,    \* the main thread between the read and the write of
                \* stats['errors'] += 1 (line 295): task and value read
  ps_results,   \* results
  \* ---- the rotation lists of the Instagram and Threads scrapers ---------
  pk_pc,        \* "ready" once the scrapers are constructed
  pk_n,         \* per selection function: the number of entries loaded
  pk_index,     \* per selection function: account_index / proxy_index
  pk_picks,     \* history, per selection function: the entries selected, by
                \* position in load order, 0 for None
  pk_login,     \* what the last login_next_account returned
  pk_sleeps,    \* time.sleep calls of _get_next_proxy
  \* ---- one run of the Instagram scraper --------------------------------
  ig_pc,        \* "next": between two celebrities; "attempt": in the retry loop
                \* of scrape_instagram_profile; "done": lambda_handler returned
  ig_n,         \* celebrities taken from the list so far
  ig_handle,    \* instagram_handle of process_celebrity (the last one taken)
  ig_attempt,   \* loop variable `attempt` of scrape_instagram_profile
  ig_cb,        \* scraper.circuit_breaker
  ig_now,       \* the clock in seconds, read from the last recorded failure (the
                \* origin moves to each failure), capped at timeout + 1, and
                \* kept only while the breaker is open or ig_tripped
  processed_profiles, \* scraper.processed_profiles
  accounts,     \* len(scraper.accounts)
  account_index, \* scraper.account_index
  ig_written,   \* the table: number of items this run has put, per username
  ig_last,      \* the result dict of the last process_celebrity
  ig_results,   \* results['successful'], ['failed'], ['skipped']
  ig_sleeps,    \* time.sleep calls made for the current celebrity
  ig_fetches,   \* history: Profile.from_username calls made for the current celebrity
  ig_fetched_ok, \* history: handles whose scrape returned success
  ig_seen_before, \* history: the current handle was fetched successfully earlier
  ig_tripped,   \* history: failure_threshold failures in a row have been recorded,
                \* the last of them at most timeout seconds ago
  ig_guarded,   \* history: the current celebrity was taken while ig_tripped
  ig_put,       \* history: the item put into the table for the current celebrity
  ig_answers,   \* history: what each Profile.from_username call of the current
                \* celebrity met
  \* ---- one run of the Google search scraper (the fetch loop is the retry
  \*      executor above) -------------------------------------------------
  gs_pc,        \* "next": between two celebrities; "fetch": inside
                \* retry_with_backoff; "done": lambda_handler returned
  gs_n,         \* celebrities taken from the list so far
  use_key_rotation, \* key_rotation_enabled and rotation_manager is not None
  gs_keys,      \* len(rotation_manager.keys)
  gs_starved,   \* history: an earlier celebrity of the run got no API key
  gs_status,    \* 'status' of the entry last appended to results
  gs_results,   \* success_count and error_count of the summary
  gs_answers,   \* history: what each fetch of the current celebrity met
  gs_put_failures, \* history: put_item calls that raised for the current celebrity
  gs_puts,      \* history: items put into the table for the current celebrity
  gs_put_calls, \* history: put_item calls made for the current celebrity
  gs_write_sleeps, \* time.sleep calls of write_scraper_entry_with_retry
  gs_put,       \* history: the item put into the table for the current celebrity
  gs_requests,  \* the sum over the keys of rotation_manager.key_stats[key]["requests"]
  gs_http,      \* history: requests.get calls made in the run
  \* ---- one run of the YouTube scraper (both loops are the retry executor
  \*      above, in its YouTube copy) -------------------------------------
  yt_pc,        \* "next"; "search": in retry_with_backoff around
                \* search_youtube_channel; "fetch": in retry_with_backoff around
                \* fetch_channel_data; "done"
  yt_n,         \* celebrities taken from the list so far
  yt_status,    \* 'status' of the entry last appended to results
  yt_results,   \* success_count, error_count, not_found_count
  yt_search,    \* history: what each search of the current celebrity met
  yt_search_sleeps, \* history: the sleeps of the search loop
  yt_channel_id, \* search_result['channel_id']
  yt_fetch,     \* history: what each channel fetch of the current celebrity met
  yt_put_failures, \* history: put_item calls that raised for the current celebrity
  yt_write_sleeps, \* time.sleep calls of write_scraper_entry_with_retry
  yt_put,       \* history: the item put into the table for the current celebrity
  \* ---- one run of the Threads scraper ----------------------------------
  th_pc,        \* "start"; "next": between two celebrities; "attempt": in the
                \* retry loop of scrape_threads_profile; "done"
  th_code,      \* statusCode of the response, 0 while running
  th_total,     \* len(celebrities)
  th_n,         \* celebrities taken from the list so far
  th_cur,       \* the celebrity dict being processed
  th_handle,    \* threads_handle of process_celebrity
  th_attempt,   \* loop variable `attempt` of scrape_threads_profile
  th_accounts,  \* len(scraper.accounts)
  th_proxies,   \* len(scraper.proxies)
  th_account_index, \* scraper.account_index
  th_proxy_index,   \* scraper.proxy_index
  th_last_error, \* last_error of scrape_threads_profile
  th_metrics,   \* scraper.metrics.metrics
  th_published, \* the values handed to cloudwatch.put_metric_data
  th_status,    \* 'status' of the entry last appended to results
  th_counts,    \* success_count, error_count, skipped_count
  th_batch_delays, \* time.sleep calls between two celebrities
  th_answers,   \* history: what each session.get of the current celebrity met
  th_picks,     \* history: the account and proxy positions used by each attempt
  th_sleeps,    \* history: time.sleep calls made for the current celebrity
  th_put,       \* history: the item put into the table for the current celebrity
  th_result     \* 'status' of the dict scrape_threads_profile returned

retryVars == <<variant, max_retries, base_delay, attempt, result, rpc, retval, sleeps, history>>
cbVars == <<cb_kind, cb, tcb, now, cb_op, cb_ret, cb_prev, cb_at, cb_streak, cb_n>>
enVars == <<en_store, en_feed, en_updates, en_redelivered,
            use_comprehend, en_first, en_seen>>
igVars == <<ig_pc, ig_n, ig_handle, ig_attempt, ig_cb, ig_now, processed_profiles,
            accounts, account_index, ig_written, ig_last, ig_results, ig_sleeps,
            ig_fetches, ig_fetched_ok, ig_seen_before, ig_tripped, ig_guarded,
                 ig_put, ig_answers>>

gsVars == <<gs_keys, gs_starved, gs_pc, gs_n, use_key_rotation, gs_status, gs_results, gs_answers,
            gs_put_failures, gs_puts, gs_put_calls, gs_write_sleeps, gs_put, gs_requests, gs_http>>
ytVars == <<yt_pc, yt_n, yt_status, yt_results, yt_search, yt_search_sleeps,
            yt_channel_id, yt_fetch, yt_put_failures, yt_write_sleeps, yt_put>>

krVars == <<kr_pc, strategy, keys, current_index, key_stats, rate_limit_threshold,
            kr_issued, kr_recorded, kr_skip>>

cwVars == <<cw_pc, cw_key, cw_loaded, cw_success, cw_calls>>

psVars == <<ps_pc, num_workers, ps_task, ps_status, ps_loaded, ps_stats, ps_caught,
            ps_results>>

pkVars == <<pk_pc, pk_n, pk_index, pk_picks, pk_login, pk_sleeps>>

wtVars == <<wt_pc, wt_raw_text, wt_source, wt_weight>>

bpVars == <<bp_pc, bp_total, bp_idx, bp_counts, bp_code, bp_outcomes, bp_last>>

thVars == <<th_pc, th_code, th_total, th_n, th_cur, th_handle, th_attempt, th_accounts,
            th_proxies, th_account_index, th_proxy_index, th_last_error, th_metrics,
            th_published, th_status, th_counts, th_batch_delays, th_answers, th_picks,
            th_sleeps, th_put, th_result>>

vars == <<retryVars, cbVars, enVars, igVars, gsVars, ytVars, thVars, bpVars, wtVars, krVars, pkVars, cwVars, psVars>>

(***************************************************************************)
(* retry_with_backoff                                                      *)
(***************************************************************************)
Unbound == [unbound |-> TRUE]
Raise == [raise |-> TRUE]
NoValue == [none |-> TRUE]

\* The results func() can return on its n-th call: dicts with the keys the
\* fetch functions produce.  `n` stands for the payload of the call, so that
\* the results of different calls differ.
FuncResults(v, n) ==
  [success : BOOLEAN,
   error : ErrorTexts \cup {NoText},
   channel_id : IF v = "youtube" THEN {None, "UC1"} ELSE {None},
   n : {n}]

\* result.get('success')  /  result.get('success') or result.get('channel_id')
IsDoneResult(v, r) ==
  IF v = "youtube" THEN r.success \/ r.channel_id # None ELSE r.success

\* Mutant: only 'Invalid' is looked for.
IsTerminalError_InvalidOnly(r) == Contains(r.error, "Invalid")

\* 'Invalid' in result.get('error', '') or 'API key' in result.get('error', '')
IsTerminalError(r) ==
  Contains(r.error, "Invalid") \/ Contains(r.error, "API key")

\* Mutant: the delay does not grow.
BackoffDelay_Constant(base, k) == base

\* delay = base_delay * (2 ** attempt)
BackoffDelay(base, k) == base * (2 ^ k)

\* Mutant: the sleep is taken after the last attempt too.
SleepAfter_EveryAttempt(k) == Append(sleeps, BackoffDelay(base_delay, k))

\* The sleep of one loop iteration that goes on: only if attempt < max_retries - 1.
SleepAfter(k) ==
  IF k < max_retries - 1 THEN Append(sleeps, BackoffDelay(base_delay, k)) ELSE sleeps

\* One iteration of the for loop in which func() comes back with `out`.
RetryStep(out) ==
  /\ rpc = "loop"
  /\ attempt < max_retries
  /\   /\ history' = Append(history, out)
       /\ IF out = Raise
            THEN \* except Exception: sleep and go on; result keeps its binding
                 /\ result' = result
                 /\ sleeps' = SleepAfter(attempt)
                 /\ attempt' = attempt + 1
                 /\ UNCHANGED <<rpc, retval>>
          ELSE IF IsDoneResult(variant, out)
            THEN /\ result' = out
                 /\ rpc' = "returned"
                 /\ retval' = out
                 /\ UNCHANGED <<sleeps, attempt>>
          ELSE IF out.error = NoText
            THEN \* `'Invalid' in None` raises TypeError, caught by except Exception
                 /\ result' = out
                 /\ sleeps' = SleepAfter(attempt)
                 /\ attempt' = attempt + 1
                 /\ UNCHANGED <<rpc, retval>>
          ELSE IF IsTerminalError(out)
            THEN /\ result' = out
                 /\ rpc' = "returned"
                 /\ retval' = out
                 /\ UNCHANGED <<sleeps, attempt>>
          ELSE   /\ result' = out
                 /\ sleeps' = SleepAfter(attempt)
                 /\ attempt' = attempt + 1
                 /\ UNCHANGED <<rpc, retval>>
  /\ UNCHANGED <<variant, max_retries, base_delay>>

\* One iteration of the for loop, func() call included.
RetryAttempt == \E out \in FuncResults(variant, attempt + 1) \cup {Raise} : RetryStep(out)

\* `return result` after the loop: UnboundLocalError when no call ever returned.
RetryFallThrough ==
  /\ rpc = "loop"
  /\ attempt = max_retries
  /\ IF result = Unbound
       THEN rpc' = "raised" /\ retval' = NoValue
       ELSE rpc' = "returned" /\ retval' = result
  /\ UNCHANGED <<variant, max_retries, base_delay, attempt, result, sleeps, history>>

StartRetry ==
  /\ variant \in {"google", "youtube"}
  /\ max_retries \in 1..MaxRetries
  /\ base_delay \in 1..MaxBaseDelay
  /\ attempt = 0
  /\ result = Unbound
  /\ rpc = "loop"
  /\ retval = NoValue
  /\ sleeps = <<>>
  /\ history = <<>>

\* The component is not running: nothing of it ever changes.
IdleRetry ==
  /\ variant = "google"
  /\ max_retries = 1
  /\ base_delay = 1
  /\ attempt = 0
  /\ result = Unbound
  /\ rpc = "idle"
  /\ retval = NoValue
  /\ sleeps = <<>>
  /\ history = <<>>

(***************************************************************************)
(* CircuitBreaker (Instagram: record_success / record_failure /            *)
(* can_execute; Threads: call / is_healthy).  The methods are operators on *)
(* the instance's attributes, so that the scraper runs use the same code.  *)
(***************************************************************************)
NoTime == 0 - 1   \* last_failure_time = None

\* CircuitBreaker.__init__ (Instagram)
CircuitBreaker(threshold, tmo) ==
  [failure_threshold |-> threshold, timeout |-> tmo,
   failure_count |-> 0, last_failure_time |-> NoTime, is_open |-> FALSE]

\* CircuitBreaker.record_success
record_success(b) == [b EXCEPT !.failure_count = 0, !.is_open = FALSE]

\* Mutant: the breaker opens only above the threshold.
record_failure_AboveThreshold(b, t) ==
  [b EXCEPT !.failure_count = b.failure_count + 1,
            !.last_failure_time = t,
            !.is_open = IF b.failure_count + 1 > b.failure_threshold THEN TRUE ELSE b.is_open]

\* CircuitBreaker.record_failure at clock t
record_failure(b, t) ==
  [b EXCEPT !.failure_count = b.failure_count + 1,
            !.last_failure_time = t,
            !.is_open = IF b.failure_count + 1 >= b.failure_threshold THEN TRUE ELSE b.is_open]

\* Mutant: the cooldown counts as expired at exactly timeout seconds.
CooldownExpired_AtTimeout(b, t) == t - b.last_failure_time >= b.timeout

\* elapsed > self.timeout
CooldownExpired(b, t) == t - b.last_failure_time > b.timeout

\* CircuitBreaker.can_execute at clock t: the value returned
can_execute(b, t) ==
  IF ~b.is_open THEN TRUE
  ELSE IF b.last_failure_time # NoTime /\ CooldownExpired(b, t) THEN TRUE
  ELSE FALSE

\* Mutant: the expired cooldown closes the breaker and keeps the count.
after_can_execute_KeepsCount(b, t) ==
  IF b.is_open /\ b.last_failure_time # NoTime /\ CooldownExpired(b, t)
    THEN [b EXCEPT !.is_open = FALSE]
    ELSE b

\* CircuitBreaker.can_execute at clock t: the instance afterwards
after_can_execute(b, t) ==
  IF b.is_open /\ b.last_failure_time # NoTime /\ CooldownExpired(b, t)
    THEN [b EXCEPT !.is_open = FALSE, !.failure_count = 0]
    ELSE b

\* CircuitBreaker.__init__ (Threads)
ThreadsCircuitBreaker(threshold, tmo) ==
  [failure_threshold |-> threshold, timeout |-> tmo,
   failures |-> 0, last_failure_time |-> NoTime, is_open |-> FALSE]

\* time.time() - self.last_failure_time > self.timeout
ThreadsCooldownExpired(b, t) == t - b.last_failure_time > b.timeout

\* CircuitBreaker.call: whether func is run at all (else "Circuit breaker is open")
call_admits(b, t) == ~b.is_open \/ ThreadsCooldownExpired(b, t)

\* CircuitBreaker.call at clock t, func returning (ok) or raising
after_call(b, t, ok) ==
  LET b1 == IF b.is_open /\ ThreadsCooldownExpired(b, t)
              THEN [b EXCEPT !.is_open = FALSE, !.failures = 0] ELSE b
  IN  IF ~call_admits(b, t) THEN b
      ELSE IF ok THEN [b1 EXCEPT !.failures = 0]
      ELSE [b1 EXCEPT !.failures = b1.failures + 1,
                      !.last_failure_time = t,
                      !.is_open = IF b1.failures + 1 >= b1.failure_threshold
                                    THEN TRUE ELSE b1.is_open]

\* CircuitBreaker.is_healthy at clock t: the value returned
is_healthy(b, t) ==
  IF ~b.is_open THEN TRUE
  ELSE IF ThreadsCooldownExpired(b, t) THEN TRUE
  ELSE FALSE

\* CircuitBreaker.is_healthy at clock t: the instance afterwards
after_is_healthy(b, t) ==
  IF b.is_open /\ ThreadsCooldownExpired(b, t)
    THEN [b EXCEPT !.is_open = FALSE, !.failures = 0]
    ELSE b

\* Bookkeeping of one call on the breaker under test.
CBLog(op, ret, prev, streak) ==
  /\ cb_n < MaxOps
  /\ cb_n' = cb_n + 1
  /\ cb_op' = op
  /\ cb_ret' = ret
  /\ cb_prev' = prev
  /\ cb_at' = now
  /\ cb_streak' = streak
  /\ UNCHANGED <<cb_kind, now>>

CBRecordSuccess ==
  /\ cb_kind = "instagram"
  /\ cb' = record_success(cb)
  /\ CBLog("record_success", TRUE, cb, 0)
  /\ UNCHANGED tcb

CBRecordFailure ==
  /\ cb_kind = "instagram"
  /\ cb' = record_failure(cb, now)
  /\ CBLog("record_failure", TRUE, cb, cb_streak + 1)
  /\ UNCHANGED tcb

CBCanExecute ==
  /\ cb_kind = "instagram"
  /\ cb' = after_can_execute(cb, now)
  /\ CBLog("can_execute", can_execute(cb, now), cb,
           IF after_can_execute(cb, now) # cb THEN 0 ELSE cb_streak)
  /\ UNCHANGED tcb

\* Threads: cb.call(func), func returning or raising
CBCall ==
  /\ cb_kind = "threads"
  /\ \E ok \in BOOLEAN :
       /\ tcb' = after_call(tcb, now, ok)
       /\ CBLog(IF ~call_admits(tcb, now) THEN "call_refused"
                ELSE IF ok THEN "call_ok" ELSE "call_failed",
                call_admits(tcb, now) /\ ok, tcb,
                IF ~call_admits(tcb, now) THEN cb_streak
                ELSE IF ok THEN 0
                ELSE IF tcb.is_open THEN 1 ELSE cb_streak + 1)
  /\ UNCHANGED cb

CBIsHealthy ==
  /\ cb_kind = "threads"
  /\ tcb' = after_is_healthy(tcb, now)
  /\ CBLog("is_healthy", is_healthy(tcb, now), tcb,
           IF after_is_healthy(tcb, now) # tcb THEN 0 ELSE cb_streak)
  /\ UNCHANGED cb

\* Time passes between two calls.
CBTick ==
  /\ now < MaxTime
  /\ now' = now + 1
  /\ UNCHANGED <<cb_kind, cb, tcb, cb_op, cb_ret, cb_prev, cb_at, cb_streak, cb_n>>

StartCB ==
  /\ cb_kind \in {"instagram", "threads"}
  /\ \E th \in 1..MaxThreshold, tmo \in 1..MaxTimeout :
       /\ cb = CircuitBreaker(th, tmo)
       /\ tcb = ThreadsCircuitBreaker(th, tmo)
  /\ now = 0
  /\ cb_op = "init"
  /\ cb_ret = TRUE
  /\ cb_prev = IF cb_kind = "instagram" THEN cb ELSE tcb
  /\ cb_at = 0
  /\ cb_streak = 0
  /\ cb_n = 0

IdleCB ==
  /\ cb_kind = "none"
  /\ cb = CircuitBreaker(1, 1)
  /\ tcb = ThreadsCircuitBreaker(1, 1)
  /\ now = 0
  /\ cb_op = "init"
  /\ cb_ret = TRUE
  /\ cb_prev = cb
  /\ cb_at = 0
  /\ cb_streak = 0
  /\ cb_n = 0

(***************************************************************************)
(* Store, change feed and post-processor (EnrichmentProcessor).            *)
(* A payload stands for a raw_text by what the processor reads of it:      *)
(* whether json.loads accepts it, how many of its values are neither None  *)
(* nor '', and the polarity the sentiment backend finds in its text.       *)
(* Weights are in hundredths.                                              *)
(***************************************************************************)
Null == 0 - 1     \* None where a number is expected
NoItem == [absent |-> TRUE]
NoPayload == [missing |-> TRUE]   \* the attribute raw_text is absent or empty

Keys == {"c1|google_search#t1", "c2|instagram#t2"}

Payloads ==
  {[valid |-> TRUE, fields |-> 2, polarity |-> 1],
   [valid |-> TRUE, fields |-> 11, polarity |-> 0 - 1],
   [valid |-> FALSE, fields |-> 0, polarity |-> 0]}

SrcGoogle == <<"https://www.googleapis.com/customsearch/v1">>
SrcInstagram == <<"instagram">>
SrcWikipedia == <<"https://", "en.wikipedia.org", "/wiki/x">>
SrcYoutubeSite == <<"https://www.", "youtube.com", "/c/x">>
Sources == {SrcGoogle, SrcInstagram, SrcWikipedia, SrcYoutubeSite}

\* source_reliability, in dict order, in hundredths
source_reliability ==
  << <<"api.themoviedb.org", 95>>, <<"en.wikipedia.org", 90>>, <<"newsapi.org", 85>>,
     <<"twitter.com", 80>>, <<"instagram.com", 75>>, <<"youtube.com", 85>> >>

\* str.lower() on the fragments of a source
Lower(text) ==
  [i \in DOMAIN text |-> IF text[i] = "EN.WIKIPEDIA.ORG" THEN "en.wikipedia.org"
                          ELSE IF text[i] = "HTTPS://" THEN "https://"
                          ELSE text[i]]

\* the loop `for domain, score in source_reliability.items()` with its default
reliability_score(source) ==
  LET hits == {i \in DOMAIN source_reliability :
                 Contains(Lower(source), source_reliability[i][1])}
  IN  IF hits = {} THEN 50
      ELSE source_reliability[CHOOSE i \in hits : \A j \in hits : i <= j][2]

\* Mutant: a payload json.loads rejects counts as empty.
completeness_tenths_InvalidZero(raw_text) ==
  IF ~raw_text.valid THEN 0
  ELSE IF raw_text.fields < 10 THEN raw_text.fields ELSE 10

\* completeness_score in tenths: min(field_count / 10, 1.0), 0.3 when json.loads fails
completeness_tenths(raw_text) ==
  IF ~raw_text.valid THEN 3
  ELSE IF raw_text.fields < 10 THEN raw_text.fields ELSE 10

\* The (tenths of completeness, reliability) pairs whose weight lies halfway
\* between two hundredths and which round(weight, 2) takes upwards in binary
\* floating point; the other halfway cases go downwards.
HalfwayUp ==
  {<<1, 95>>, <<4, 95>>, <<8, 95>>, <<9, 95>>, <<2, 85>>, <<5, 85>>, <<9, 85>>,
   <<10, 85>>, <<0, 75>>, <<3, 75>>, <<6, 75>>, <<8, 75>>, <<10, 75>>}

\* calculate_weight: round(completeness * 0.5 + reliability * 0.5, 2), in hundredths
calculate_weight(raw_text, source) ==
  LET c == completeness_tenths(raw_text)
      r == reliability_score(source)
      t == 50 * c + 5 * r        \* the weight in thousandths
  IN  IF t % 10 = 5 /\ <<c, r>> \in HalfwayUp THEN t \div 10 + 1 ELSE t \div 10

\* What the classifier call of one calculate_sentiment can do: TextBlob
\* answers; comprehend.detect_sentiment answers or raises.
ClassifierOutcomes(comprehend) == IF comprehend THEN {"answers", "raises"} ELSE {"answers"}

\* calculate_sentiment: polarity > 0.1 / < -0.1 / otherwise; "neutral" when
\* the classifier raises.
calculate_sentiment(raw_text, classifier) ==
  IF classifier = "raises" THEN "neutral"
  ELSE IF raw_text.polarity > 0 THEN "positive"
  ELSE IF raw_text.polarity < 0 THEN "negative"
  ELSE "neutral"

\* Mutant: the item is written with a weight.
SourceRecord_Scored(raw_text, source) ==
  [raw_text |-> raw_text, source |-> source, weight |-> 50,
   sentiment |-> None, updated_at |-> Null, attrs |-> "as written"]

\* The item an orchestrator writes: weight and sentiment unset; attrs stands
\* for id, name, timestamp and metadata.
SourceRecord(raw_text, source) ==
  [raw_text |-> raw_text, source |-> source, weight |-> Null,
   sentiment |-> None, updated_at |-> Null, attrs |-> "as written"]

\* raw_text of the scrapers: a JSON object (Google, Instagram, YouTube) or the
\* HTML page (Threads), which json.loads rejects.
JsonPayload == [valid |-> TRUE, fields |-> 2, polarity |-> 1]
HtmlPayload == [valid |-> FALSE, fields |-> 0, polarity |-> 0]

SrcYoutubeApi == <<"https://www.googleapis.com/youtube/v3/channels">>
SrcThreads == <<"https://www.threads.net">>

\* scraper_entry of the Google search and YouTube handlers, item of the
\* Instagram and Threads save_to_dynamodb
GoogleItem == SourceRecord(JsonPayload, SrcGoogle)
YoutubeItem == SourceRecord(JsonPayload, SrcYoutubeApi)
InstagramItem == SourceRecord(JsonPayload, SrcInstagram)
ThreadsItem == SourceRecord(HtmlPayload, SrcThreads)
\* The items the store receives from the four scrapers.
ScraperItems == {GoogleItem, YoutubeItem, InstagramItem, ThreadsItem}

\* A stream record of the change feed.
StreamRecord(seq, event, key, image) ==
  [seq |-> seq, eventName |-> event, key |-> key, NewImage |-> image]

\* An orchestrator's put_item of a new SourceRecord; the stream reports an INSERT.
OrchestratorInsert ==
  \E k \in Keys, item \in ScraperItems :
    /\ en_store[k] = NoItem
    /\ en_store' = [en_store EXCEPT ![k] = item]
    /\ en_feed' = en_feed \cup {StreamRecord(1, "INSERT", k, item)}
    /\ UNCHANGED <<en_updates, en_redelivered, use_comprehend, en_first,
                   en_seen>>

\* Mutant: source is not among the required attributes.
MissingRequired_SourceOptional(image) == image.raw_text = NoPayload

\* not all([celebrity_id, source_type_timestamp, raw_text, source])
MissingRequired(image) == image.raw_text = NoPayload \/ image.source = <<>>

\* process_stream_record up to the update: whether update_item is called
WillUpdate(rec) ==
  /\ rec.eventName \in {"INSERT", "MODIFY"}
  /\ rec.NewImage # NoItem       \* 'NewImage' in dynamodb_record
  /\ rec.key # None              \* celebrity_id and source_type#timestamp
  /\ ~MissingRequired(rec.NewImage)

\* Stream records that are not the notification of a complete item: another
\* event, no NewImage, or a NewImage without one of the four attributes.
OddRecords ==
  {StreamRecord(1, "REMOVE", "c1|google_search#t1", NoItem),
   StreamRecord(1, "INSERT", "c1|google_search#t1", NoItem),
   StreamRecord(1, "MODIFY", None, SourceRecord(JsonPayload, SrcGoogle)),
   StreamRecord(1, "INSERT", "c1|google_search#t1", SourceRecord(NoPayload, SrcGoogle)),
   StreamRecord(1, "MODIFY", "c2|instagram#t2", SourceRecord(JsonPayload, <<>>))}

\* Mutant: the update also rewrites the other attributes.
update_item_Replacing(item, weight, sentiment, at) ==
  [item EXCEPT !.weight = weight, !.sentiment = sentiment, !.updated_at = at,
               !.attrs = "rewritten"]

\* table.update_item(Key, SET weight, sentiment, updated_at)
update_item(item, weight, sentiment, at) ==
  [item EXCEPT !.weight = weight, !.sentiment = sentiment, !.updated_at = at]

\* The stream's sequence number of the next mutation of an item, counted per
\* item: 1 for the INSERT, n + 1 for the n-th update.
SequenceNumber(k) == en_updates[k] + 2

\* datetime.utcnow() of an update, as the number of the update of the item.
UpdatedAt(k) == en_updates[k] + 1

\* The feed after the processor consumed rec (or was handed it without the feed
\* dropping it) and the store became `store`: a changed item is reported as MODIFY.
FeedAfter(rec, consumed, store) ==
  LET rest == IF consumed THEN en_feed \ {rec} ELSE en_feed
  IN  IF rec.key \in Keys /\ store[rec.key] # en_store[rec.key]
        THEN rest \cup {StreamRecord(SequenceNumber(rec.key), "MODIFY", rec.key,
                                      store[rec.key])}
        ELSE rest

\* The history of the updates made for a record that the feed hands over again.
SeenAfter(rec, consumed, weight, sentiment) ==
  IF \E e \in en_seen : e.seq = rec.seq /\ e.key = rec.key
    THEN {IF e.seq = rec.seq /\ e.key = rec.key
            THEN [e EXCEPT !.again = TRUE, !.weight2 = weight, !.sentiment2 = sentiment]
            ELSE e : e \in en_seen}
  ELSE IF ~consumed
    THEN en_seen \cup {[seq |-> rec.seq, key |-> rec.key, weight |-> weight,
                        sentiment |-> sentiment, again |-> FALSE,
                        weight2 |-> Null, sentiment2 |-> None]}
  ELSE en_seen

\* The updates made so far, over all records.
UpdatesMade == en_updates["c1|google_search#t1"] + en_updates["c2|instagram#t2"]

\* process_stream_record(rec) for a record of the feed: the classifier answers
\* or raises, update_item goes through or raises (`fails`).
Handle(rec, consumed, classifier, fails) ==
  LET weight == calculate_weight(rec.NewImage.raw_text, rec.NewImage.source)
      sentiment == calculate_sentiment(rec.NewImage.raw_text, classifier)
  IN
  /\ consumed \/ en_redelivered < MaxRedeliveries
  /\ en_redelivered' = IF consumed THEN en_redelivered ELSE en_redelivered + 1
  /\ IF WillUpdate(rec) /\ ~fails
       THEN /\ UpdatesMade < MaxUpdates
            /\ en_store' = [en_store EXCEPT ![rec.key] =
                  update_item(en_store[rec.key], weight, sentiment, UpdatedAt(rec.key))]
            /\ en_updates' = [en_updates EXCEPT ![rec.key] = @ + 1]
            /\ en_feed' = FeedAfter(rec, consumed, en_store')
            /\ en_first' = IF en_first[rec.key] = NoValue
                             THEN [en_first EXCEPT ![rec.key] =
                                     [weight |-> weight, sentiment |-> sentiment]]
                             ELSE en_first
            /\ en_seen' = SeenAfter(rec, consumed, weight, sentiment)
       ELSE /\ en_feed' = FeedAfter(rec, consumed, en_store)
            /\ UNCHANGED <<en_store, en_updates, en_first, en_seen>>
  /\ UNCHANGED use_comprehend

\* lambda_handler on one stream record: process_stream_record(record)
ProcessRecord ==
  \E rec \in en_feed, consumed \in BOOLEAN,
     classifier \in ClassifierOutcomes(use_comprehend), fails \in BOOLEAN :
    \* the classifier's answer is written by update_item only
    /\ (~WillUpdate(rec) \/ fails) => classifier = "answers"
    /\ Handle(rec, consumed, classifier, fails)

FreshEnrich ==
  /\ en_store = [k \in Keys |-> NoItem]
  /\ en_feed = {}
  /\ en_updates = [k \in Keys |-> 0]
  /\ en_redelivered = 0
  /\ en_first = [k \in Keys |-> NoValue]
  /\ en_seen = {}

StartEnrich == use_comprehend \in BOOLEAN /\ FreshEnrich

IdleEnrich == use_comprehend = FALSE /\ FreshEnrich

(***************************************************************************)
(* APIKeyRotationManager (key_rotation.py)                                 *)
(***************************************************************************)
DefaultRateLimitThreshold == 95
Strategies == {"round_robin", "least_used", "random", "adaptive", "unknown"}
ErrorTypes == {None, "RATE_LIMIT", "TIMEOUT"}
NewStats == [requests |-> 0, errors |-> 0, last_error |-> None, age |-> "none"]

\* Mutant: the index does not wrap.
round_robin_key_NoWrap(index, n) == IF index < n THEN index + 1 ELSE n

\* self.keys[self.current_index % len(self.keys)]
round_robin_key(index, n) == (index % n) + 1

\* Mutant: among the keys with the fewest requests, the one loaded last.
least_used_key_Last(stats, n) ==
  CHOOSE k \in 1..n :
    /\ \A j \in 1..n : stats[k].requests <= stats[j].requests
    /\ \A j \in (k + 1)..n : stats[j].requests > stats[k].requests

\* min(self.keys, key=requests): the first key in load order with the fewest
least_used_key(stats, n) ==
  CHOOSE k \in 1..n :
    /\ \A j \in 1..n : stats[k].requests <= stats[j].requests
    /\ \A j \in 1..(k - 1) : stats[j].requests > stats[k].requests

\* Mutant: every error counts as stale.
is_error_stale_Always(st) == TRUE

\* _is_error_stale: datetime.now() - last_error_time > timedelta(hours=1)
is_error_stale(st) == st.last_error = None \/ st.age = "none" \/ st.age = "stale"

\* available_keys of _get_adaptive_key, in load order
available_keys(stats, n) ==
  LET ok == {k \in 1..n : stats[k].last_error # "RATE_LIMIT" \/ is_error_stale(stats[k])}
  IN  [i \in 1..Cardinality(ok) |->
         CHOOSE k \in ok : Cardinality({j \in ok : j < k}) = i - 1]

\* _reset_error_tracking
reset_error_tracking(stats) ==
  [k \in DOMAIN stats |-> [stats[k] EXCEPT !.last_error = None, !.age = "none"]]

\* get_next_key()
GetNextKey ==
  /\ kr_pc = "ready"
  /\ Len(kr_issued) < MaxSelections
  /\ IF keys = 0
       THEN /\ kr_issued' = Append(kr_issued, 0)
            /\ UNCHANGED <<current_index, key_stats>>
     ELSE IF strategy = "least_used"
       THEN /\ kr_issued' = Append(kr_issued, least_used_key(key_stats, keys))
            /\ UNCHANGED <<current_index, key_stats>>
     ELSE IF strategy = "random"
       THEN /\ \E k \in 1..keys : kr_issued' = Append(kr_issued, k)
            /\ UNCHANGED <<current_index, key_stats>>
     ELSE IF strategy = "adaptive" /\ available_keys(key_stats, keys) # <<>>
       THEN LET available == available_keys(key_stats, keys) IN
            /\ kr_issued' = Append(kr_issued, available[(current_index % Len(available)) + 1])
            /\ current_index' = current_index + 1
            /\ UNCHANGED key_stats
     ELSE \* round_robin, the fallback for an unknown strategy, and adaptive
          \* with every key rate limited
          /\ key_stats' = IF strategy = "adaptive"
                            THEN reset_error_tracking(key_stats) ELSE key_stats
          /\ kr_issued' = Append(kr_issued, round_robin_key(current_index, keys))
          /\ current_index' = current_index + 1
  /\ UNCHANGED <<kr_pc, strategy, keys, rate_limit_threshold, kr_recorded, kr_skip>>

\* record_request(key, success, error_type); key 0 is a key the manager does
\* not know
RecordRequest ==
  /\ kr_pc = "ready"
  /\ kr_recorded < MaxRecorded
  /\ \E key \in 0..keys, success \in BOOLEAN, error_type \in ErrorTypes :
       /\ success => error_type = None
       /\ kr_recorded' = kr_recorded + 1
       /\ key_stats' =
            IF key = 0 THEN key_stats
            ELSE IF success THEN [key_stats EXCEPT ![key].requests = @ + 1]
            ELSE [key_stats EXCEPT ![key].requests = @ + 1, ![key].errors = @ + 1,
                                   ![key].last_error = error_type, ![key].age = "fresh"]
  /\ UNCHANGED <<kr_pc, strategy, keys, current_index, rate_limit_threshold, kr_issued,
                 kr_skip>>

\* Time passes: the last error of a key becomes one hour old, or older. The
\* age is followed only where the manager reads it, on a rate limit.
HourPasses ==
  /\ kr_pc = "ready"
  /\ \E key \in 1..keys, age \in {"hour", "stale"} :
       /\ key_stats[key].last_error = "RATE_LIMIT"
       /\ \/ key_stats[key].age = "fresh"
          \/ key_stats[key].age = "hour" /\ age = "stale"
       /\ key_stats' = [key_stats EXCEPT ![key].age = age]
  /\ UNCHANGED <<kr_pc, strategy, keys, current_index, rate_limit_threshold, kr_issued,
                 kr_recorded, kr_skip>>

\* (errors / requests) * 100 in floating point falls just below the exact
\* quotient for these (errors, requests), among requests up to MaxRequests + 1:
\* (29 / 50) * 100 = 57.99999999999999.
RateRoundedDown == {<<29, 50>>}

\* should_skip_key(key): error_rate >= self.rate_limit_threshold
should_skip_key(stats, n, key, threshold) ==
  IF key \notin 1..n THEN FALSE
  ELSE IF stats[key].requests = 0 THEN FALSE
  ELSE IF <<stats[key].errors, stats[key].requests>> \in RateRoundedDown
    THEN stats[key].errors * 100 > threshold * stats[key].requests
  ELSE stats[key].errors * 100 >= threshold * stats[key].requests

\* A call of should_skip_key.
ShouldSkipKey ==
  /\ kr_pc = "ready"
  /\ kr_skip = NoValue
  /\ \E key \in 0..keys :
       kr_skip' = [key |-> key,
                   result |-> should_skip_key(key_stats, keys, key, rate_limit_threshold),
                   before |-> key_stats]
  /\ UNCHANGED <<kr_pc, strategy, keys, current_index, key_stats, rate_limit_threshold,
                 kr_issued, kr_recorded>>

FreshRotation ==
  /\ current_index = 0
  /\ kr_issued = <<>>
  /\ kr_recorded = 0
  /\ kr_skip = NoValue

\* APIKeyRotationManager.__init__
StartRotation ==
  /\ kr_pc = "ready"
  /\ strategy \in Strategies
  /\ keys \in 0..MaxKeys
  /\ key_stats = [k \in 1..keys |-> NewStats]
  /\ rate_limit_threshold = DefaultRateLimitThreshold
  /\ FreshRotation

\* RATE_LIMIT_THRESHOLD as configured
Thresholds == {0, 50, 58, DefaultRateLimitThreshold, 100}

\* A manager with one key after any number of recorded requests.
StartSkip ==
  /\ kr_pc = "ready"
  /\ strategy = "round_robin"
  /\ keys = 1
  /\ \E r \in 0..MaxRequests, e \in 0..MaxRequests :
       /\ e <= r
       /\ key_stats = [k \in 1..1 |-> [NewStats EXCEPT !.requests = r, !.errors = e]]
  /\ rate_limit_threshold \in Thresholds
  /\ FreshRotation

IdleRotation ==
  /\ kr_pc = "idle"
  /\ strategy = "round_robin"
  /\ keys = 0
  /\ key_stats = <<>>
  /\ rate_limit_threshold = DefaultRateLimitThreshold
  /\ FreshRotation

(***************************************************************************)
(* One APIKeyRotationManager used by several workers at once. The manager  *)
(* takes no lock: each read and each write of current_index and of a       *)
(* counter is a step of its own.                                           *)
(***************************************************************************)
Workers == 1..MaxWorkers

\* key = self.keys[self.current_index % len(self.keys)]
SelectKey(w) ==
  /\ cw_pc[w] = "start"
  /\ cw_key' = [cw_key EXCEPT ![w] = round_robin_key(current_index, keys)]
  /\ cw_pc' = [cw_pc EXCEPT ![w] = "selected"]
  /\ UNCHANGED <<krVars, cw_loaded, cw_success, cw_calls>>

\* self.current_index += 1: the read
LoadIndex(w) ==
  /\ cw_pc[w] = "selected"
  /\ cw_loaded' = [cw_loaded EXCEPT ![w] = current_index]
  /\ cw_pc' = [cw_pc EXCEPT ![w] = "index_loaded"]
  /\ UNCHANGED <<krVars, cw_key, cw_success, cw_calls>>

\* self.current_index += 1: the write; get_next_key returns
StoreIndex(w) ==
  /\ cw_pc[w] = "index_loaded"
  /\ current_index' = cw_loaded[w] + 1
  /\ kr_issued' = Append(kr_issued, cw_key[w])
  /\ cw_pc' = [cw_pc EXCEPT ![w] = "has_key"]
  /\ UNCHANGED <<kr_pc, strategy, keys, key_stats, rate_limit_threshold, kr_recorded,
                 kr_skip, cw_key, cw_loaded, cw_success, cw_calls>>

\* record_request(key, success, error_type) is called;
\* stats["requests"] += 1: the read
LoadRequests(w) ==
  /\ cw_pc[w] = "has_key"
  /\ \E success \in BOOLEAN :
       /\ cw_success' = [cw_success EXCEPT ![w] = success]
       /\ cw_calls' = [cw_calls EXCEPT ![cw_key[w]] =
                         [requests |-> @.requests + 1,
                          errors |-> IF success THEN @.errors ELSE @.errors + 1]]
  /\ kr_recorded' = kr_recorded + 1
  /\ cw_loaded' = [cw_loaded EXCEPT ![w] = key_stats[cw_key[w]].requests]
  /\ cw_pc' = [cw_pc EXCEPT ![w] = "requests_loaded"]
  /\ UNCHANGED <<kr_pc, strategy, keys, current_index, key_stats, rate_limit_threshold,
                 kr_issued, kr_skip, cw_key>>

\* stats["requests"] += 1: the write
StoreRequests(w) ==
  /\ cw_pc[w] = "requests_loaded"
  /\ key_stats' = [key_stats EXCEPT ![cw_key[w]].requests = cw_loaded[w] + 1]
  /\ cw_pc' = [cw_pc EXCEPT ![w] = IF cw_success[w] THEN "done" ELSE "failed"]
  /\ UNCHANGED <<kr_pc, strategy, keys, current_index, rate_limit_threshold, kr_issued,
                 kr_recorded, kr_skip, cw_key, cw_loaded, cw_success, cw_calls>>

\* stats["errors"] += 1: the read
LoadErrors(w) ==
  /\ cw_pc[w] = "failed"
  /\ cw_loaded' = [cw_loaded EXCEPT ![w] = key_stats[cw_key[w]].errors]
  /\ cw_pc' = [cw_pc EXCEPT ![w] = "errors_loaded"]
  /\ UNCHANGED <<krVars, cw_key, cw_success, cw_calls>>

\* stats["errors"] += 1: the write, then last_error and last_error_time
StoreErrors(w) ==
  /\ cw_pc[w] = "errors_loaded"
  /\ key_stats' = [key_stats EXCEPT ![cw_key[w]].errors = cw_loaded[w] + 1,
                                    ![cw_key[w]].last_error = "TIMEOUT",
                                    ![cw_key[w]].age = "fresh"]
  /\ cw_pc' = [cw_pc EXCEPT ![w] = "done"]
  /\ UNCHANGED <<kr_pc, strategy, keys, current_index, rate_limit_threshold, kr_issued,
                 kr_recorded, kr_skip, cw_key, cw_loaded, cw_success, cw_calls>>

FreshWorkers ==
  /\ cw_key = [w \in Workers |-> 0]
  /\ cw_loaded = [w \in Workers |-> 0]
  /\ cw_success = [w \in Workers |-> TRUE]

\* A round_robin manager with at least one key, handed to the workers.
StartWorkers ==
  /\ kr_pc = "shared"
  /\ strategy = "round_robin"
  /\ keys \in 1..MaxKeys
  /\ key_stats = [k \in 1..keys |-> NewStats]
  /\ rate_limit_threshold = DefaultRateLimitThreshold
  /\ FreshRotation
  /\ cw_pc = [w \in Workers |-> "start"]
  /\ cw_calls = [k \in 1..keys |-> [requests |-> 0, errors |-> 0]]
  /\ FreshWorkers

IdleWorkers ==
  /\ cw_pc = [w \in Workers |-> "idle"]
  /\ cw_calls = <<>>
  /\ FreshWorkers

(***************************************************************************)
(* ParallelScraper.run: a ThreadPoolExecutor of num_workers threads runs   *)
(* _process_celebrity for every celebrity; the main thread collects the    *)
(* futures. self.stats is written by all of them without a lock, so the    *)
(* read and the write of each `+= 1` are steps of their own.               *)
(***************************************************************************)
Tasks == 1..MaxCelebrities

\* What _process_celebrity can come to: the status of the dict it returns,
\* or an exception that leaves it.
ProcessOutcomes ==
  {"success",         \* fetched and written
   "fetch_error",     \* _fetch_google_search_data returns success False
   "write_failed",    \* _write_to_dynamodb returns False
   "raises"}

\* 'status' of the result dict
ProcessStatus(o) == IF o = "success" THEN "success" ELSE "error"

\* The main thread is not handling a worker's exception.
NotCatching == [task |-> 0, loaded |-> 0]

\* The tasks a worker thread is in the middle of.
Running == {i \in Tasks : ps_task[i] = "counting"}

\* A worker takes task i: _process_celebrity up to the read of the counter it
\* increments (lines 193, 205, 214), or up to the exception.
ProcessCelebrity(i) ==
  /\ ps_pc = "run"
  /\ ps_task[i] = "queued"
  /\ Cardinality(Running) < num_workers
  /\ \E o \in ProcessOutcomes :
       IF o = "raises"
         THEN /\ ps_task' = [ps_task EXCEPT ![i] = "raised"]
              /\ UNCHANGED <<ps_status, ps_loaded>>
         ELSE /\ ps_task' = [ps_task EXCEPT ![i] = "counting"]
              /\ ps_status' = [ps_status EXCEPT ![i] = ProcessStatus(o)]
              /\ ps_loaded' = [ps_loaded EXCEPT ![i] =
                                 IF o = "success" THEN ps_stats.success ELSE ps_stats.errors]
  /\ UNCHANGED <<ps_pc, num_workers, ps_stats, ps_caught, ps_results>>

\* The worker writes the counter back, one higher, and returns the dict.
StoreCount(i) ==
  /\ ps_task[i] = "counting"
  /\ ps_stats' = IF ps_status[i] = "success"
                   THEN [ps_stats EXCEPT !.success = ps_loaded[i] + 1]
                   ELSE [ps_stats EXCEPT !.errors = ps_loaded[i] + 1]
  /\ ps_task' = [ps_task EXCEPT ![i] = "returned"]
  /\ UNCHANGED <<ps_pc, num_workers, ps_status, ps_loaded, ps_caught, ps_results>>

\* as_completed yields a future that returned: results.append(result)
CollectResult(i) ==
  /\ ps_caught = NotCatching
  /\ ps_task[i] = "returned"
  /\ ps_results' = Append(ps_results, ps_status[i])
  /\ ps_task' = [ps_task EXCEPT ![i] = "collected"]
  /\ UNCHANGED <<ps_pc, num_workers, ps_status, ps_loaded, ps_stats, ps_caught>>

\* as_completed yields a future that raised: the read of stats['errors'] += 1
CatchWorker(i) ==
  /\ ps_caught = NotCatching
  /\ ps_task[i] = "raised"
  /\ ps_caught' = [task |-> i, loaded |-> ps_stats.errors]
  /\ UNCHANGED <<ps_pc, num_workers, ps_task, ps_status, ps_loaded, ps_stats, ps_results>>

\* ... its write, and results.append of an error dict
StoreCaught ==
  /\ ps_caught # NotCatching
  /\ ps_stats' = [ps_stats EXCEPT !.errors = ps_caught.loaded + 1]
  /\ ps_status' = [ps_status EXCEPT ![ps_caught.task] = "error"]
  /\ ps_results' = Append(ps_results, "error")
  /\ ps_task' = [ps_task EXCEPT ![ps_caught.task] = "collected"]
  /\ ps_caught' = NotCatching
  /\ UNCHANGED <<ps_pc, num_workers, ps_loaded>>

\* Every future is collected: the executor is left and run() returns.
ParallelReturn ==
  /\ ps_pc = "run"
  /\ \A i \in 1..ps_stats.total : ps_task[i] = "collected"
  /\ ps_pc' = "done"
  /\ UNCHANGED <<num_workers, ps_task, ps_status, ps_loaded, ps_stats, ps_caught,
                 ps_results>>

FreshParallel ==
  /\ ps_status = [i \in Tasks |-> "none"]
  /\ ps_loaded = [i \in Tasks |-> 0]
  /\ ps_caught = NotCatching
  /\ ps_results = <<>>

\* run() up to the executor: stats['total'] = len(celebrities), every
\* celebrity submitted.
StartParallel ==
  /\ ps_pc = "run"
  /\ num_workers \in 1..MaxWorkers
  /\ \E total \in 0..MaxCelebrities :
       /\ ps_stats = [total |-> total, success |-> 0, errors |-> 0]
       /\ ps_task = [i \in Tasks |-> IF i <= total THEN "queued" ELSE "absent"]
  /\ FreshParallel

IdleParallel ==
  /\ ps_pc = "idle"
  /\ num_workers = 1
  /\ ps_stats = [total |-> 0, success |-> 0, errors |-> 0]
  /\ ps_task = [i \in Tasks |-> "absent"]
  /\ FreshParallel

(***************************************************************************)
(* Post-processor: calculate_weight on its own                             *)
(***************************************************************************)
SrcTmdb == <<"https://", "api.themoviedb.org", "/3/person/1">>
SrcNewsApi == <<"https://", "newsapi.org", "/v2/everything">>
SrcTwitter == <<"https://", "twitter.com", "/x">>
SrcInstagramSite == <<"https://www.", "instagram.com", "/x/">>
SrcWikipediaUpper == <<"HTTPS://", "EN.WIKIPEDIA.ORG", "/wiki/X">>
\* a source with two table domains in it
SrcShared == <<"https://", "youtube.com", "/redirect?q=", "twitter.com", "/x">>

WeightSources ==
  Sources \cup {SrcYoutubeApi, SrcThreads, SrcTmdb, SrcNewsApi, SrcTwitter,
                SrcInstagramSite, SrcWikipediaUpper, SrcShared}

\* raw_text values: JSON objects with 0..MaxFields non-empty top-level
\* fields, and texts that are no JSON object.
WeightPayloads ==
  Payloads \cup {HtmlPayload}
    \cup {[valid |-> TRUE, fields |-> n, polarity |-> 0] : n \in 0..MaxFields}

\* weight = calculate_weight(raw_text, source)
CalculateWeight ==
  /\ wt_pc = "call"
  /\ wt_weight' = calculate_weight(wt_raw_text, wt_source)
  /\ wt_pc' = "returned"
  /\ UNCHANGED <<wt_raw_text, wt_source>>

StartWeight ==
  /\ wt_pc = "call"
  /\ wt_raw_text \in WeightPayloads
  /\ wt_source \in WeightSources
  /\ wt_weight = Null

IdleWeight ==
  wt_pc = "idle" /\ wt_raw_text = NoPayload /\ wt_source = <<>> /\ wt_weight = Null

(***************************************************************************)
(* Post-processor: lambda_handler over a batch of stream records           *)
(***************************************************************************)
\* Mutant: a failed record is not counted.
CountRecord_DropsErrors(counts, ok) ==
  IF ok THEN [counts EXCEPT !.success = @ + 1] ELSE counts

\* success_count += 1 / error_count += 1
CountRecord(counts, ok) ==
  IF ok THEN [counts EXCEPT !.success = @ + 1] ELSE [counts EXCEPT !.errors = @ + 1]

\* lambda_handler up to the loop: without 'Records' it answers 400.
BatchStart ==
  /\ bp_pc = "start"
  /\ \E has_records \in BOOLEAN :
       IF has_records
         THEN bp_pc' = "loop" /\ bp_total' \in 0..MaxBatch /\ bp_code' = 0
         ELSE bp_pc' = "done" /\ bp_total' = 0 /\ bp_code' = 400
  /\ UNCHANGED <<enVars, bp_idx, bp_counts, bp_outcomes, bp_last>>

\* One iteration of the loop, on a record that process_stream_record cannot
\* read (KeyError, caught: False) or that it skips (other event, no NewImage:
\* True): the store is not touched.
BatchOddRecord ==
  /\ bp_pc = "loop"
  /\ bp_idx < bp_total
  /\ \E kind \in {"malformed", "skipped"} :
       /\ bp_counts' = CountRecord(bp_counts, kind = "skipped")
       /\ bp_outcomes' = Append(bp_outcomes, kind)
  /\ bp_last' = NoItem
  /\ bp_idx' = bp_idx + 1
  /\ UNCHANGED <<enVars, bp_pc, bp_total, bp_code>>

\* One iteration of the loop on a record of the feed.
BatchRecord ==
  /\ bp_pc = "loop"
  /\ bp_idx < bp_total
  /\ \E rec \in en_feed \cup OddRecords, consumed \in BOOLEAN,
        classifier \in ClassifierOutcomes(use_comprehend), fails \in BOOLEAN :
       /\ fails => WillUpdate(rec)
       /\ (~WillUpdate(rec) \/ fails) => classifier = "answers"
       /\ bp_last' = rec
       /\ Handle(rec, consumed, classifier, fails)
       /\ bp_counts' = CountRecord(bp_counts, ~fails)
       /\ bp_outcomes' = Append(bp_outcomes, IF fails THEN "update_failed" ELSE "processed")
  /\ bp_idx' = bp_idx + 1
  /\ UNCHANGED <<bp_pc, bp_total, bp_code>>

\* The loop is over: the response with total, success and errors.
BatchReturn ==
  /\ bp_pc = "loop"
  /\ bp_idx = bp_total
  /\ bp_pc' = "done"
  /\ bp_code' = 200
  /\ UNCHANGED <<enVars, bp_total, bp_idx, bp_counts, bp_outcomes, bp_last>>

FreshBatch ==
  /\ bp_total = 0
  /\ bp_idx = 0
  /\ bp_counts = [success |-> 0, errors |-> 0]
  /\ bp_code = 0
  /\ bp_outcomes = <<>>
  /\ bp_last = NoItem

StartBatch == bp_pc = "start" /\ FreshBatch

IdleBatch == bp_pc = "idle" /\ FreshBatch

(***************************************************************************)
(* One run of the Instagram scraper: lambda_handler, process_celebrity,    *)
(* scrape_instagram_profile, save_to_dynamodb, login_next_account.         *)
(***************************************************************************)
INSTAGRAM_MAX_RETRIES == 3
DefaultFailureThreshold == 5
DefaultTimeout == 300
RateLimitBackoffBase == 10
ErrorBackoffStep == 5

Handles == {"h1", "h2"}

\* The celebrity dicts of the event (or of the table scan), by the two keys read.
Celebrities ==
  {[instagram_handle |-> None, instagram |-> None],
   [instagram_handle |-> "",   instagram |-> ""],
   [instagram_handle |-> None, instagram |-> "h1"],
   [instagram_handle |-> "",   instagram |-> "h2"],
   [instagram_handle |-> "h1", instagram |-> None],
   [instagram_handle |-> "h2", instagram |-> "h1"]}

Falsy(x) == x = None \/ x = ""

\* celebrity.get('instagram_handle') or celebrity.get('instagram')
ResolveHandle(celebrity) ==
  IF ~Falsy(celebrity.instagram_handle) THEN celebrity.instagram_handle
  ELSE celebrity.instagram

\* Mutant: only None counts as a missing handle.
HasHandle_NotNone(h) == h # None

\* the test `if not instagram_handle` of process_celebrity, negated
HasHandle(h) == ~Falsy(h)

\* Mutant: the handle is not remembered.
MarkProcessed_Forgets(profiles, h) == profiles

\* self.processed_profiles.add(instagram_handle)
MarkProcessed(profiles, h) == profiles \cup {h}

\* What one attempt of the try block can meet.
FetchOutcomes ==
  {"ok",              \* the profile is fetched and the data dict built
   "ok_then_error",   \* the profile is fetched, an attribute read raises
   "not_found",       \* ProfileNotExistsException
   "private",         \* PrivateProfileNotFollowedException
   "login_required",  \* LoginRequiredException
   "rate_limited",    \* TooManyRequestsException
   "error"}           \* any other exception

\* How long a call to Instagram takes: no time to speak of, or longer than the
\* breaker's cooldown.
CallSeconds == {0, DefaultTimeout + 1}

\* The clock d seconds later.
Later(t, d) == IF t + d > DefaultTimeout THEN DefaultTimeout + 1 ELSE t + d

\* The clock as far as anything reads it.
Clock(b, tripped, t) == IF b.is_open \/ tripped THEN t ELSE 0

\* Mutant: the wait does not grow with the attempt.
RateLimitWait_Constant(k) == RateLimitBackoffBase

\* wait_time of the TooManyRequestsException handler
RateLimitWait(k) == RateLimitBackoffBase * (2 ^ k)
\* wait_time of the generic exception handler
ErrorWait(k) == ErrorBackoffStep * (k + 1)

\* The time.sleep of an attempt with outcome o that is followed by another one.
WaitAfter(o, k) ==
  IF o = "rate_limited" THEN <<RateLimitWait(k)>>
  ELSE IF o \in {"error", "ok_then_error"} THEN <<ErrorWait(k)>>
  ELSE <<>>

\* lambda_handler's counting of one result
Count(status) ==
  IF status = "success" THEN [ig_results EXCEPT !.successful = @ + 1]
  ELSE IF status = "skipped" THEN [ig_results EXCEPT !.skipped = @ + 1]
  ELSE [ig_results EXCEPT !.failed = @ + 1]

\* process_celebrity returns `status`/`reason`; lambda_handler counts it.
Answer(status, reason) ==
  /\ ig_last' = [status |-> status, reason |-> reason]
  /\ ig_results' = Count(status)
  /\ ig_pc' = "next"

\* lambda_handler takes the next celebrity: process_celebrity up to the first
\* attempt of scrape_instagram_profile.
IGBegin ==
  /\ ig_pc = "next"
  /\ ig_n < MaxSubjects
  /\ \E celebrity \in Celebrities :
       LET h == ResolveHandle(celebrity) IN
       /\ ig_handle' = h
       /\ ig_n' = ig_n + 1
       /\ ig_attempt' = 0
       /\ ig_sleeps' = <<>>
       /\ ig_fetches' = 0
       /\ ig_seen_before' = (h \in ig_fetched_ok)
       /\ ig_guarded' = ig_tripped
       /\ ig_put' = NoItem
       /\ ig_answers' = <<>>
       /\ IF ~HasHandle(h)
            THEN /\ Answer("skipped", "no_instagram_handle")
                 /\ UNCHANGED ig_cb
          ELSE IF ~can_execute(ig_cb, ig_now)
            THEN /\ Answer("failed", "rate_limited")
                 /\ UNCHANGED ig_cb
          ELSE /\ ig_cb' = after_can_execute(ig_cb, ig_now)
               /\ IF h \in processed_profiles
                    THEN Answer("failed", "duplicate")
                    ELSE /\ ig_pc' = "attempt"
                         /\ UNCHANGED <<ig_last, ig_results>>
  /\ ig_now' = Clock(ig_cb', ig_tripped, ig_now)
  /\ UNCHANGED <<processed_profiles, accounts, account_index, ig_written,
                 ig_fetched_ok, ig_tripped>>

\* One iteration of the retry loop: Profile.from_username and what follows it,
\* up to the next iteration or, when scrape_instagram_profile returns, to the
\* end of process_celebrity (save_to_dynamodb included).
IGAttempt ==
  /\ ig_pc = "attempt"
  /\ \E o \in FetchOutcomes, d \in CallSeconds, saved \in BOOLEAN :
       LET t == Later(ig_now, d)     \* the clock when the call comes back
           last == ~(ig_attempt < INSTAGRAM_MAX_RETRIES - 1)
           fetched == o \in {"ok", "ok_then_error"}
           wait == IF last THEN <<>> ELSE WaitAfter(o, ig_attempt)
           t1 == IF o = "rate_limited" THEN 0 ELSE t   \* a failure moves the origin
           t2 == IF wait = <<>> THEN t1 ELSE Later(t1, wait[1])
       IN
       /\ o = "ok" \/ saved          \* save_to_dynamodb runs after a success only
       \* the duration of the call is read only while the clock is kept
       /\ d # 0 => (o # "rate_limited" /\ (ig_cb.is_open \/ ig_tripped))
       /\ (o = "login_required" /\ ~last /\ accounts > 0) => account_index < MaxLogins
       /\ ig_fetches' = ig_fetches + 1
       /\ ig_answers' = Append(ig_answers, o)
       /\ processed_profiles' =
            IF fetched THEN MarkProcessed(processed_profiles, ig_handle) ELSE processed_profiles
       /\ ig_cb' = IF o = "ok" THEN record_success(ig_cb)
                   ELSE IF o = "rate_limited" THEN record_failure(ig_cb, 0)
                   ELSE ig_cb
       /\ ig_tripped' =
            IF o = "rate_limited"
              THEN ig_tripped \/ ig_cb'.failure_count = ig_cb'.failure_threshold
              ELSE ig_tripped /\ t2 <= DefaultTimeout
       /\ ig_fetched_ok' = IF o = "ok" THEN ig_fetched_ok \cup {ig_handle} ELSE ig_fetched_ok
       \* table.put_item of save_to_dynamodb
       /\ ig_written' = IF o = "ok" /\ saved
                          THEN [ig_written EXCEPT ![ig_handle] = @ + 1] ELSE ig_written
       /\ ig_put' = IF o = "ok" /\ saved THEN InstagramItem ELSE NoItem
       \* login_next_account, on LoginRequiredException with attempts left
       /\ account_index' = IF o = "login_required" /\ ~last /\ accounts > 0
                             THEN account_index + 1 ELSE account_index
       \* time.sleep of the handlers that go on
       /\ ig_sleeps' = ig_sleeps \o wait
       /\ ig_now' = Clock(ig_cb', ig_tripped', t2)
       /\ IF o = "ok"
            THEN Answer(IF saved THEN "success" ELSE "save_failed", "success")
          ELSE IF o = "not_found" THEN Answer("failed", "profile_not_found")
          ELSE IF o = "private" THEN Answer("failed", "private_account")
          ELSE IF ~last
            THEN /\ ig_attempt' = ig_attempt + 1
                 /\ UNCHANGED <<ig_pc, ig_last, ig_results>>
          ELSE IF o = "login_required" THEN Answer("failed", "login_required")
          ELSE IF o = "rate_limited" THEN Answer("failed", "rate_limited")
          ELSE Answer("failed", "retry_exhausted")
       /\ (o \in {"ok", "not_found", "private"} \/ last) => UNCHANGED ig_attempt
  /\ UNCHANGED <<ig_n, ig_handle, accounts, ig_seen_before, ig_guarded>>

\* The list is exhausted: lambda_handler publishes the metrics and returns.
IGFinish ==
  /\ ig_pc = "next"
  /\ ig_pc' = "done"
  /\ UNCHANGED <<ig_n, ig_handle, ig_attempt, ig_cb, ig_now, processed_profiles,
                 accounts, account_index, ig_written, ig_last, ig_results, ig_sleeps,
                 ig_fetches, ig_fetched_ok, ig_seen_before, ig_tripped, ig_guarded,
                 ig_put, ig_answers>>

\* The scraper before anything ran.
FreshIG ==
  /\ ig_n = 0
  /\ ig_handle = None
  /\ ig_attempt = 0
  /\ ig_cb = CircuitBreaker(DefaultFailureThreshold, DefaultTimeout)
  /\ ig_now = 0
  /\ processed_profiles = {}
  /\ account_index = 0
  /\ ig_written = [h \in Handles |-> 0]
  /\ ig_last = [status |-> "none", reason |-> "none"]
  /\ ig_results = [successful |-> 0, failed |-> 0, skipped |-> 0]
  /\ ig_sleeps = <<>>
  /\ ig_fetches = 0
  /\ ig_fetched_ok = {}
  /\ ig_seen_before = FALSE
  /\ ig_tripped = FALSE
  /\ ig_guarded = FALSE
  /\ ig_put = NoItem
  /\ ig_answers = <<>>

\* InstagramScraper.__init__ and the start of lambda_handler: no account
\* loaded (anonymous mode) or MaxAccounts of them
StartIG == ig_pc = "next" /\ accounts \in {0, MaxAccounts} /\ FreshIG

IdleIG == ig_pc = "idle" /\ accounts = 0 /\ FreshIG

(***************************************************************************)
(* Google search scraper: lambda_handler, fetch_google_search_data,        *)
(* write_scraper_entry_with_retry                                          *)
(***************************************************************************)
GoogleMaxRetries == 3
GoogleBaseDelay == 1
WriteMaxRetries == 3
WriteBaseDelay == 1

TxtApiErrorQuota == <<"API error: ", "Quota exceeded">>
TxtMalformed == <<"Malformed response">>

\* What one call of fetch_google_search_data can meet.
Http200 == {"200", "200_error_invalid", "200_error_quota", "200_malformed"}
HttpAnswers == Http200 \cup {"429", "500", "timeout"}
\* get_next_key returned None: no request is sent
NoKey == "no_key"

\* What a call of fetch_google_search_data can meet in a run: with rotation in
\* use and no key loaded get_next_key returns None on every call, otherwise a
\* request is sent.
GoogleAnswers(rotation, nkeys) ==
  IF rotation /\ nkeys = 0 THEN {NoKey} ELSE HttpAnswers

\* fetch_google_search_data calls rotation_manager.record_request on this
\* outcome: a result body, an API error body, a timeout, an HTTP 429.
RecordsRequest(answer) ==
  answer \in {"200", "200_error_invalid", "200_error_quota", "timeout", "429"}

\* The dict fetch_google_search_data returns on its n-th call.
fetch_google_search_data(answer, n) ==
  [success |-> answer = "200",
   error |-> IF answer = "200" THEN NoText
             ELSE IF answer = "200_error_invalid" THEN TxtApiErrorInvalid
             ELSE IF answer = "200_error_quota" THEN TxtApiErrorQuota
             ELSE IF answer = "200_malformed" THEN TxtMalformed
             ELSE IF answer = "429" THEN TxtRateLimited429
             ELSE IF answer = "timeout" THEN TxtApiTimeout
             ELSE IF answer = NoKey THEN TxtNoValidKeys
             ELSE TxtHttp500,
   channel_id |-> None,
   n |-> n]

\* Mutant: the write is reported as done whatever put_item did.
write_scraper_entry_with_retry_AlwaysTrue(failures) ==
  [ok |-> TRUE,
   puts |-> IF failures < WriteMaxRetries THEN 1 ELSE 0,
   calls |-> IF failures < WriteMaxRetries THEN failures + 1 ELSE WriteMaxRetries,
   sleeps |-> [k \in 1..(IF failures < WriteMaxRetries THEN failures ELSE WriteMaxRetries - 1)
                 |-> BackoffDelay(WriteBaseDelay, k - 1)]]

\* write_scraper_entry_with_retry when put_item raises on its first `failures`
\* calls: what it returns, the items it has put, the sleeps it has made.
write_scraper_entry_with_retry(failures) ==
  [ok |-> failures < WriteMaxRetries,
   puts |-> IF failures < WriteMaxRetries THEN 1 ELSE 0,
   calls |-> IF failures < WriteMaxRetries THEN failures + 1 ELSE WriteMaxRetries,
   sleeps |-> [k \in 1..(IF failures < WriteMaxRetries THEN failures ELSE WriteMaxRetries - 1)
                 |-> BackoffDelay(WriteBaseDelay, k - 1)]]

\* lambda_handler takes the next celebrity and calls retry_with_backoff.
GSBegin ==
  /\ gs_pc = "next"
  /\ gs_n < MaxCelebrities
  /\ gs_n' = gs_n + 1
  /\ gs_pc' = "fetch"
  /\ attempt' = 0
  /\ result' = Unbound
  /\ rpc' = "loop"
  /\ retval' = NoValue
  /\ sleeps' = <<>>
  /\ history' = <<>>
  /\ gs_answers' = <<>>
  /\ gs_put_failures' = 0
  /\ gs_puts' = 0
  /\ gs_put_calls' = 0
  /\ gs_write_sleeps' = <<>>
  /\ gs_put' = NoItem
  /\ UNCHANGED <<variant, max_retries, base_delay, use_key_rotation, gs_keys, gs_starved,
                 gs_status, gs_results, gs_requests, gs_http>>

\* One iteration of retry_with_backoff around fetch_google_search_data.
GSFetch ==
  /\ gs_pc = "fetch"
  /\ \E answer \in GoogleAnswers(use_key_rotation, gs_keys) :
       /\ RetryStep(fetch_google_search_data(answer, attempt + 1))
       /\ gs_answers' = Append(gs_answers, answer)
       /\ gs_http' = IF answer = NoKey THEN gs_http ELSE gs_http + 1
       /\ gs_requests' = IF use_key_rotation /\ RecordsRequest(answer)
                           THEN gs_requests + 1 ELSE gs_requests
  /\ UNCHANGED <<gs_pc, gs_n, use_key_rotation, gs_keys, gs_starved, gs_status,
                 gs_results, gs_put_failures, gs_puts, gs_put_calls, gs_write_sleeps, gs_put>>

\* results.append of one entry
Append_results(status) ==
  /\ gs_status' = status
  /\ gs_results' = IF status = "success"
                     THEN [gs_results EXCEPT !.success = @ + 1]
                     ELSE [gs_results EXCEPT !.errors = @ + 1]

\* retry_with_backoff comes back (its `return result` included) and the rest of
\* the loop body runs: the write and the entry appended to results.
GSAppendResult ==
  /\ gs_pc = "fetch"
  /\ rpc = "returned" \/ (rpc = "loop" /\ attempt = max_retries)
  /\ LET google_result == IF rpc = "returned" THEN retval ELSE result IN
     IF google_result = Unbound
       THEN \* UnboundLocalError, caught by the except of the loop body
            /\ Append_results("error")
            /\ UNCHANGED <<gs_put_failures, gs_puts, gs_put_calls, gs_write_sleeps, gs_put>>
     ELSE IF google_result.success
       THEN \E failures \in 0..WriteMaxRetries :
              LET w == write_scraper_entry_with_retry(failures) IN
              /\ gs_put_failures' = failures
              /\ gs_puts' = w.puts
              /\ gs_put_calls' = w.calls
              /\ gs_write_sleeps' = w.sleeps
              /\ gs_put' = IF w.puts > 0 THEN GoogleItem ELSE NoItem
              /\ Append_results(IF w.ok THEN "success" ELSE "error")
     ELSE /\ Append_results("error")
          /\ UNCHANGED <<gs_put_failures, gs_puts, gs_put_calls, gs_write_sleeps, gs_put>>
  /\ gs_starved' = (gs_starved \/ (gs_answers # <<>> /\ gs_answers[Len(gs_answers)] = NoKey))
  /\ gs_pc' = "next"
  /\ rpc' = "idle"
  /\ UNCHANGED <<variant, max_retries, base_delay, attempt, result, retval, sleeps,
                 history, gs_n, use_key_rotation, gs_keys, gs_answers, gs_requests, gs_http>>

\* lambda_handler leaves before the loop: an environment variable is missing
\* or the table cannot be reached, and the summary returned is total 0,
\* success 0, errors 1.
GSConfigurationError ==
  /\ gs_pc = "next"
  /\ gs_n = 0
  /\ gs_pc' = "done"
  /\ gs_results' = [success |-> 0, errors |-> 1]
  /\ UNCHANGED <<retryVars, gs_n, use_key_rotation, gs_keys, gs_starved, gs_status,
                 gs_answers, gs_put_failures, gs_puts, gs_put_calls, gs_write_sleeps,
                 gs_put, gs_requests, gs_http>>

\* The list is exhausted: the summary is compiled and returned.
GSReturn ==
  /\ gs_pc = "next"
  /\ gs_pc' = "done"
  /\ UNCHANGED <<retryVars, gs_n, use_key_rotation, gs_keys, gs_starved, gs_status,
                 gs_results, gs_answers,
                 gs_put_failures, gs_puts, gs_put_calls, gs_write_sleeps, gs_put,
                 gs_requests, gs_http>>

FreshGS ==
  /\ gs_n = 0
  /\ gs_starved = FALSE
  /\ gs_status = "none"
  /\ gs_results = [success |-> 0, errors |-> 0]
  /\ gs_answers = <<>>
  /\ gs_put_failures = 0
  /\ gs_puts = 0
  /\ gs_put_calls = 0
  /\ gs_write_sleeps = <<>>
  /\ gs_put = NoItem
  /\ gs_requests = 0
  /\ gs_http = 0

\* lambda_handler up to the loop over the celebrities; the calls of
\* retry_with_backoff it makes are with max_retries=3, base_delay=1.
StartGS ==
  /\ gs_pc = "next"
  /\ use_key_rotation \in BOOLEAN
  /\ gs_keys \in 0..MaxKeys
  /\ FreshGS
  /\ variant = "google"
  /\ max_retries = GoogleMaxRetries
  /\ base_delay = GoogleBaseDelay
  /\ attempt = 0
  /\ result = Unbound
  /\ rpc = "idle"
  /\ retval = NoValue
  /\ sleeps = <<>>
  /\ history = <<>>

IdleGS == gs_pc = "idle" /\ use_key_rotation = FALSE /\ gs_keys = 0 /\ FreshGS

(***************************************************************************)
(* YouTube scraper: lambda_handler, search_youtube_channel,                *)
(* fetch_channel_data                                                      *)
(***************************************************************************)
YoutubeMaxRetries == 3
YoutubeBaseDelay == 1

TxtSearchTimeout == <<"Search timeout">>
TxtNoChannelData == <<"No channel data found">>
TxtFetchTimeout == <<"Channel fetch timeout">>
TxtQuota403 == <<"Quota exceeded (403)">>

\* What one call of search_youtube_channel can meet.
SearchAnswers == {"found", "no_items", "error_invalid", "error_quota", "timeout", "http"}
\* What one call of fetch_channel_data can meet.
ChannelAnswers ==
  {"ok", "no_items", "error_invalid", "error_quota", "timeout", "403", "http"}

\* The dict search_youtube_channel returns on its n-th call (it has no key
\* 'success').
search_youtube_channel(answer, n) ==
  [success |-> FALSE,
   error |-> IF answer = "found" THEN NoText
             ELSE IF answer = "no_items" THEN TxtChannelNotFound
             ELSE IF answer = "error_invalid" THEN TxtApiErrorInvalid
             ELSE IF answer = "error_quota" THEN TxtApiErrorQuota
             ELSE IF answer = "timeout" THEN TxtSearchTimeout
             ELSE TxtHttp500,
   channel_id |-> IF answer = "found" THEN "UC1" ELSE None,
   n |-> n]

\* The dict fetch_channel_data returns on its n-th call (it has no key
\* 'channel_id').
fetch_channel_data(answer, n) ==
  [success |-> answer = "ok",
   error |-> IF answer = "ok" THEN NoText
             ELSE IF answer = "no_items" THEN TxtNoChannelData
             ELSE IF answer = "error_invalid" THEN TxtApiErrorInvalid
             ELSE IF answer = "error_quota" THEN TxtApiErrorQuota
             ELSE IF answer = "timeout" THEN TxtFetchTimeout
             ELSE IF answer = "403" THEN TxtQuota403
             ELSE TxtHttp500,
   channel_id |-> None,
   n |-> n]

\* A call of retry_with_backoff begins.
EnterRetry ==
  /\ attempt' = 0
  /\ result' = Unbound
  /\ rpc' = "loop"
  /\ retval' = NoValue
  /\ sleeps' = <<>>
  /\ history' = <<>>
  /\ UNCHANGED <<variant, max_retries, base_delay>>

\* retry_with_backoff has left its loop, by a return inside it or by falling
\* through to `return result`.
RetryOver == rpc = "returned" \/ (rpc = "loop" /\ attempt = max_retries)
RetryValue == IF rpc = "returned" THEN retval ELSE result

\* results.append of one entry
YTAppend(status) ==
  /\ yt_status' = status
  /\ yt_results' = IF status = "success" THEN [yt_results EXCEPT !.success = @ + 1]
                   ELSE IF status = "not_found" THEN [yt_results EXCEPT !.not_found = @ + 1]
                   ELSE [yt_results EXCEPT !.errors = @ + 1]
  /\ yt_pc' = "next"

\* lambda_handler takes the next celebrity and calls retry_with_backoff for
\* the search.
YTBegin ==
  /\ yt_pc = "next"
  /\ yt_n < MaxCelebrities
  /\ yt_n' = yt_n + 1
  /\ yt_pc' = "search"
  /\ EnterRetry
  /\ yt_search' = <<>>
  /\ yt_search_sleeps' = <<>>
  /\ yt_channel_id' = None
  /\ yt_fetch' = <<>>
  /\ yt_put_failures' = 0
  /\ yt_write_sleeps' = <<>>
  /\ yt_put' = NoItem
  /\ UNCHANGED <<yt_status, yt_results>>

\* One iteration of retry_with_backoff around search_youtube_channel.
YTSearch ==
  /\ yt_pc = "search"
  /\ \E answer \in SearchAnswers :
       /\ RetryStep(search_youtube_channel(answer, attempt + 1))
       /\ yt_search' = Append(yt_search, answer)
  /\ yt_search_sleeps' = sleeps'
  /\ UNCHANGED <<yt_pc, yt_n, yt_status, yt_results, yt_channel_id, yt_fetch,
                 yt_put_failures, yt_write_sleeps, yt_put>>

\* The search loop comes back: not_found is appended, or retry_with_backoff is
\* called for the channel fetch.
YTAfterSearch ==
  /\ yt_pc = "search"
  /\ RetryOver
  /\ IF RetryValue = Unbound
       THEN \* UnboundLocalError, caught by the except of the loop body
            /\ YTAppend("error")
            /\ rpc' = "idle"
            /\ UNCHANGED <<variant, max_retries, base_delay, attempt, result, retval,
                           sleeps, history, yt_channel_id>>
     ELSE IF RetryValue.channel_id = None
       THEN /\ YTAppend("not_found")
            /\ rpc' = "idle"
            /\ UNCHANGED <<variant, max_retries, base_delay, attempt, result, retval,
                           sleeps, history, yt_channel_id>>
     ELSE /\ yt_channel_id' = RetryValue.channel_id
          /\ yt_pc' = "fetch"
          /\ EnterRetry
          /\ UNCHANGED <<yt_status, yt_results>>
  /\ UNCHANGED <<yt_n, yt_search, yt_search_sleeps, yt_fetch, yt_put_failures,
                 yt_write_sleeps, yt_put>>

\* One iteration of retry_with_backoff around fetch_channel_data.
YTFetch ==
  /\ yt_pc = "fetch"
  /\ \E answer \in ChannelAnswers :
       /\ RetryStep(fetch_channel_data(answer, attempt + 1))
       /\ yt_fetch' = Append(yt_fetch, answer)
  /\ UNCHANGED <<yt_pc, yt_n, yt_status, yt_results, yt_search, yt_search_sleeps,
                 yt_channel_id, yt_put_failures, yt_write_sleeps, yt_put>>

\* The fetch loop comes back and the rest of the loop body runs: the write and
\* the entry appended to results.
YTAppendResult ==
  /\ yt_pc = "fetch"
  /\ RetryOver
  /\ IF RetryValue = Unbound
       THEN /\ YTAppend("error")
            /\ UNCHANGED <<yt_put_failures, yt_write_sleeps, yt_put>>
     ELSE IF RetryValue.success
       THEN \E failures \in 0..WriteMaxRetries :
              LET w == write_scraper_entry_with_retry(failures) IN
              /\ yt_put_failures' = failures
              /\ yt_write_sleeps' = w.sleeps
              /\ yt_put' = IF w.puts > 0 THEN YoutubeItem ELSE NoItem
              /\ YTAppend(IF w.ok THEN "success" ELSE "error")
     ELSE /\ YTAppend("error")
          /\ UNCHANGED <<yt_put_failures, yt_write_sleeps, yt_put>>
  /\ rpc' = "idle"
  /\ UNCHANGED <<variant, max_retries, base_delay, attempt, result, retval, sleeps,
                 history, yt_n, yt_search, yt_search_sleeps, yt_channel_id, yt_fetch>>

\* lambda_handler leaves before the loop: an environment variable is missing
\* or the table cannot be reached, and the summary returned is total 0,
\* success 0, errors 1.
YTConfigurationError ==
  /\ yt_pc = "next"
  /\ yt_n = 0
  /\ yt_pc' = "done"
  /\ yt_results' = [success |-> 0, errors |-> 1, not_found |-> 0]
  /\ UNCHANGED <<retryVars, yt_n, yt_status, yt_search, yt_search_sleeps,
                 yt_channel_id, yt_fetch, yt_put_failures, yt_write_sleeps, yt_put>>

\* The list is exhausted: the summary is compiled and returned.
YTReturn ==
  /\ yt_pc = "next"
  /\ yt_pc' = "done"
  /\ UNCHANGED <<retryVars, yt_n, yt_status, yt_results, yt_search, yt_search_sleeps,
                 yt_channel_id, yt_fetch, yt_put_failures, yt_write_sleeps, yt_put>>

FreshYT ==
  /\ yt_n = 0
  /\ yt_status = "none"
  /\ yt_results = [success |-> 0, errors |-> 0, not_found |-> 0]
  /\ yt_search = <<>>
  /\ yt_search_sleeps = <<>>
  /\ yt_channel_id = None
  /\ yt_fetch = <<>>
  /\ yt_put_failures = 0
  /\ yt_write_sleeps = <<>>
  /\ yt_put = NoItem

\* lambda_handler up to the loop over the celebrities; its calls of
\* retry_with_backoff are with max_retries=3, base_delay=1.
StartYT ==
  /\ yt_pc = "next"
  /\ FreshYT
  /\ variant = "youtube"
  /\ max_retries = YoutubeMaxRetries
  /\ base_delay = YoutubeBaseDelay
  /\ attempt = 0
  /\ result = Unbound
  /\ rpc = "idle"
  /\ retval = NoValue
  /\ sleeps = <<>>
  /\ history = <<>>

IdleYT == yt_pc = "idle" /\ FreshYT

(***************************************************************************)
(* Threads scraper: lambda_handler, ThreadsScraper, save_to_dynamodb       *)
(***************************************************************************)
THREADS_MAX_RETRIES == 3
THREAD_BACKOFF_BASE == 5

\* The celebrity dicts of the event (or of the table scan), by the keys
\* _extract_threads_handle reads.
ThreadsCelebrities ==
  {[threads_handle |-> "t1", meta_handle |-> None, instagram_handle |-> None,
    handle |-> None, name |-> "A B"],
   [threads_handle |-> None, meta_handle |-> "t1", instagram_handle |-> None,
    handle |-> None, name |-> ""],
   [threads_handle |-> "", meta_handle |-> None, instagram_handle |-> None,
    handle |-> "t1", name |-> None],
   [threads_handle |-> None, meta_handle |-> None, instagram_handle |-> None,
    handle |-> None, name |-> "A B"],
   [threads_handle |-> None, meta_handle |-> None, instagram_handle |-> "",
    handle |-> "", name |-> ""],
   [threads_handle |-> None, meta_handle |-> None, instagram_handle |-> None,
    handle |-> None, name |-> None]}

\* name.lower().replace(' ', '')
NameAsHandle(name) == IF name = "A B" THEN "ab" ELSE name

\* Mutant: a record without any handle or name gets a placeholder handle.
extract_threads_handle_Placeholder(c) ==
  IF ~Falsy(c.threads_handle) THEN c.threads_handle
  ELSE IF ~Falsy(c.meta_handle) THEN c.meta_handle
  ELSE IF ~Falsy(c.instagram_handle) THEN c.instagram_handle
  ELSE IF ~Falsy(c.handle) THEN c.handle
  ELSE IF ~Falsy(c.name) THEN NameAsHandle(c.name)
  ELSE "unknown"

\* _extract_threads_handle
extract_threads_handle(c) ==
  IF ~Falsy(c.threads_handle) THEN c.threads_handle
  ELSE IF ~Falsy(c.meta_handle) THEN c.meta_handle
  ELSE IF ~Falsy(c.instagram_handle) THEN c.instagram_handle
  ELSE IF ~Falsy(c.handle) THEN c.handle
  ELSE IF ~Falsy(c.name) THEN NameAsHandle(c.name)
  ELSE None

\* What one session.get of scrape_threads_profile can meet.
ThreadsAnswers ==
  {"200",            \* status 200, _parse_threads_profile returns the data
   "200_unparsed",   \* status 200, _parse_threads_profile returns None
   "429", "403", "404",
   "500",            \* any other status
   "timeout",        \* requests.Timeout
   "connection",     \* requests.ConnectionError
   "exception"}      \* any other exception

\* Mutant: the index does not wrap.
Rotate_NoWrap(i, n) == IF n = 0 THEN 0 ELSE IF i < n THEN i + 1 ELSE n

\* The entry of a rotation list that index i selects (position 1..n), 0 for
\* None when the list is empty.
Rotate(i, n) == IF n = 0 THEN 0 ELSE (i % n) + 1
\* The index after the selection.
Advance(i, n) == IF n = 0 THEN i ELSE i + 1

Selectors == {"login_next_account", "get_next_account", "get_next_proxy"}

\* One call of a selection function: the entry at the index, the index
\* advanced; nothing of either without entries.
Select(f) ==
  /\ pk_pc = "ready"
  /\ Len(pk_picks[f]) < MaxPicks
  /\ pk_picks' = [pk_picks EXCEPT ![f] = Append(@, Rotate(pk_index[f], pk_n[f]))]
  /\ pk_index' = [pk_index EXCEPT ![f] = Advance(@, pk_n[f])]
  /\ UNCHANGED <<pk_pc, pk_n>>

\* InstagramScraper.login_next_account: the account_id when L.login succeeds
\* and the account has one, None otherwise
LoginNextAccount ==
  /\ Select("login_next_account")
  /\ \E logged_in \in BOOLEAN :
       pk_login' = IF pk_n["login_next_account"] > 0 /\ logged_in
                     THEN "account_id" ELSE None
  /\ UNCHANGED pk_sleeps

\* ThreadsScraper._get_next_account
GetNextAccount ==
  /\ Select("get_next_account")
  /\ UNCHANGED <<pk_login, pk_sleeps>>

\* ThreadsScraper._get_next_proxy: sleeps after a selection
GetNextProxy ==
  /\ Select("get_next_proxy")
  /\ pk_sleeps' = IF pk_n["get_next_proxy"] > 0 THEN pk_sleeps + 1 ELSE pk_sleeps
  /\ UNCHANGED pk_login

FreshPick ==
  /\ pk_index = [f \in Selectors |-> 0]
  /\ pk_picks = [f \in Selectors |-> <<>>]
  /\ pk_login = None
  /\ pk_sleeps = 0

\* The scrapers after __init__, with any number of accounts and proxies loaded.
StartPick ==
  /\ pk_pc = "ready"
  /\ pk_n \in [Selectors -> 0..MaxEntries]
  /\ FreshPick

IdlePick ==
  /\ pk_pc = "idle"
  /\ pk_n = [f \in Selectors |-> 0]
  /\ FreshPick

\* The time.sleep calls of one attempt after its answer: kind and base
\* duration, the random part left out.
ThreadsWait(answer, k) ==
  IF answer = "429" THEN <<[kind |-> "backoff", base |-> THREAD_BACKOFF_BASE * (2 ^ k)]>>
  ELSE IF answer = "403" THEN <<[kind |-> "detected", base |-> 10]>>
  ELSE IF answer \in {"500", "timeout", "connection", "exception"}
            /\ k < THREADS_MAX_RETRIES - 1
    THEN <<[kind |-> "error", base |-> 5]>>
  ELSE <<>>

\* Mutant: a 404 is retried like any other status.
ThreadsReturns_NotFoundRetried(answer, last) == answer = "200" \/ last

\* scrape_threads_profile returns after this answer: on a parsed 200, on a
\* 404, and when the loop runs out.
ThreadsReturns(answer, last) == answer \in {"200", "404"} \/ last

\* 'status' of the dict scrape_threads_profile returns after this answer
ThreadsResult(answer) ==
  IF answer = "200" THEN "success"
  ELSE IF answer = "404" THEN "not_found"
  ELSE "failed"

\* last_error after an attempt
ThreadsLastError(answer, before) ==
  IF answer = "500" THEN "HTTP 500"
  ELSE IF answer = "timeout" THEN "Request timeout"
  ELSE IF answer = "connection" THEN "Connection error"
  ELSE IF answer = "exception" THEN "Unexpected error"
  ELSE before

\* scraper.metrics after an attempt with this answer
ThreadsMetrics(m, answer, k, last) ==
  LET m1 == IF k > 0 THEN [m EXCEPT !.retries = @ + 1] ELSE m
      m2 == IF answer = "200" THEN [m1 EXCEPT !.successful = @ + 1]
            ELSE IF answer = "429" THEN [m1 EXCEPT !.rate_limited = @ + 1]
            ELSE IF answer \in {"404", "timeout", "connection", "exception"}
              THEN [m1 EXCEPT !.failed = @ + 1]
            ELSE m1
  IN  \* record_failure("max_retries_exceeded") after the loop
      IF last /\ answer \notin {"200", "404"} THEN [m2 EXCEPT !.failed = @ + 1] ELSE m2

\* The handler's counting of one result and its delay before the next one.
THAppend(status, n) ==
  /\ th_status' = status
  /\ th_counts' = IF status = "success" THEN [th_counts EXCEPT !.success = @ + 1]
                  ELSE IF status = "skipped" THEN [th_counts EXCEPT !.skipped = @ + 1]
                  ELSE [th_counts EXCEPT !.errors = @ + 1]
  /\ th_batch_delays' = IF n < th_total THEN th_batch_delays + 1 ELSE th_batch_delays
  /\ th_pc' = "next"

\* lambda_handler up to the loop: without accounts it answers 400.
THStart ==
  /\ th_pc = "start"
  /\ IF th_accounts = 0
       THEN th_pc' = "done" /\ th_code' = 400 /\ th_total' = 0
       ELSE th_pc' = "next" /\ th_code' = 0 /\ th_total' \in 1..MaxProfiles
  /\ UNCHANGED <<th_n, th_cur, th_handle, th_attempt, th_accounts, th_proxies,
                 th_account_index, th_proxy_index, th_last_error, th_metrics,
                 th_published, th_status, th_counts, th_batch_delays, th_answers,
                 th_picks, th_sleeps, th_put, th_result>>

\* The handler takes the next celebrity: process_celebrity up to the first
\* attempt of scrape_threads_profile.
THBegin ==
  /\ th_pc = "next"
  /\ th_n < th_total
  /\ \E c \in ThreadsCelebrities :
       /\ th_cur' = c
       /\ th_handle' = extract_threads_handle(c)
       /\ th_n' = th_n + 1
       /\ th_attempt' = 0
       /\ th_last_error' = None
       /\ th_answers' = <<>>
       /\ th_picks' = <<>>
       /\ th_sleeps' = <<>>
       /\ th_put' = NoItem
       /\ th_result' = None
       /\ IF Falsy(extract_threads_handle(c))
            THEN THAppend("skipped", th_n + 1)
            ELSE /\ th_pc' = "attempt"
                 /\ UNCHANGED <<th_status, th_counts, th_batch_delays>>
  /\ UNCHANGED <<th_code, th_total, th_accounts, th_proxies, th_account_index,
                 th_proxy_index, th_metrics, th_published>>

\* One iteration of the retry loop, up to the next iteration or, when
\* scrape_threads_profile returns, to the end of the handler's loop body
\* (save_to_dynamodb included).
THAttempt ==
  /\ th_pc = "attempt"
  /\ \E answer \in ThreadsAnswers, saved \in BOOLEAN :
       LET last == ~(th_attempt < THREADS_MAX_RETRIES - 1)
           over == ThreadsReturns(answer, last)
           proxy_wait == IF th_proxies = 0 THEN <<>>
                         ELSE <<[kind |-> "proxy", base |-> 1]>>
       IN
       /\ answer = "200" \/ saved       \* save_to_dynamodb runs after a success only
       /\ th_answers' = Append(th_answers, answer)
       /\ th_picks' = Append(th_picks, <<Rotate(th_account_index, th_accounts),
                                         Rotate(th_proxy_index, th_proxies)>>)
       /\ th_account_index' = Advance(th_account_index, th_accounts)
       /\ th_proxy_index' = Advance(th_proxy_index, th_proxies)
       /\ th_sleeps' = th_sleeps \o proxy_wait \o ThreadsWait(answer, th_attempt)
       /\ th_last_error' = ThreadsLastError(answer, th_last_error)
       /\ th_metrics' = ThreadsMetrics(th_metrics, answer, th_attempt, last)
       /\ th_put' = IF answer = "200" /\ saved THEN ThreadsItem ELSE NoItem
       /\ th_result' = IF over THEN ThreadsResult(answer) ELSE None
       /\ IF over
            THEN /\ THAppend(IF answer = "200" /\ saved THEN "success" ELSE "error", th_n)
                 /\ UNCHANGED th_attempt
            ELSE /\ th_attempt' = th_attempt + 1
                 /\ UNCHANGED <<th_pc, th_status, th_counts, th_batch_delays>>
  /\ UNCHANGED <<th_code, th_total, th_n, th_cur, th_handle, th_accounts, th_proxies,
                 th_published>>

\* The list is exhausted: the handler's own MetricsCollector, which no attempt
\* has touched, is given the two counts and published; the response is 200.
THReturn ==
  /\ th_pc = "next"
  /\ th_n = th_total
  /\ th_pc' = "done"
  /\ th_code' = 200
  /\ th_published' = [successful |-> th_counts.success, failed |-> th_counts.errors,
                      rate_limited |-> 0, retries |-> 0]
  /\ UNCHANGED <<th_total, th_n, th_cur, th_handle, th_attempt, th_accounts, th_proxies,
                 th_account_index, th_proxy_index, th_last_error, th_metrics, th_status,
                 th_counts, th_batch_delays, th_answers, th_picks, th_sleeps, th_put,
                 th_result>>

NoMetrics == [successful |-> 0, failed |-> 0, rate_limited |-> 0, retries |-> 0]

FreshTH ==
  /\ th_code = 0
  /\ th_total = 0
  /\ th_n = 0
  /\ th_cur = NoItem
  /\ th_handle = None
  /\ th_attempt = 0
  /\ th_account_index = 0
  /\ th_proxy_index = 0
  /\ th_last_error = None
  /\ th_metrics = NoMetrics
  /\ th_published = NoMetrics
  /\ th_status = "none"
  /\ th_counts = [success |-> 0, errors |-> 0, skipped |-> 0]
  /\ th_batch_delays = 0
  /\ th_answers = <<>>
  /\ th_picks = <<>>
  /\ th_sleeps = <<>>
  /\ th_put = NoItem
  /\ th_result = None

\* ThreadsScraper.__init__: the account and proxy lists empty or loaded
StartTH ==
  /\ th_pc = "start"
  /\ th_accounts \in {0, MaxAccounts}
  /\ th_proxies \in {0, MaxProxies}
  /\ FreshTH

IdleTH == th_pc = "idle" /\ th_accounts = 0 /\ th_proxies = 0 /\ FreshTH

(***************************************************************************)
(* Specifications                                                          *)
(***************************************************************************)
InitRetry == StartRetry /\ IdleCB /\ IdleEnrich /\ IdleIG /\ IdleGS /\ IdleYT /\ IdleTH /\ IdleBatch /\ IdleWeight /\ IdleRotation /\ IdlePick /\ IdleWorkers /\ IdleParallel
NextRetry ==
  \/ RetryAttempt /\ UNCHANGED <<cbVars, enVars, igVars, gsVars, ytVars, thVars, bpVars, wtVars, krVars, pkVars, cwVars, psVars>>
  \/ RetryFallThrough /\ UNCHANGED <<cbVars, enVars, igVars, gsVars, ytVars, thVars, bpVars, wtVars, krVars, pkVars, cwVars, psVars>>
SpecRetry == InitRetry /\ [][NextRetry]_vars

InitCB == StartCB /\ IdleRetry /\ IdleEnrich /\ IdleIG /\ IdleGS /\ IdleYT /\ IdleTH /\ IdleBatch /\ IdleWeight /\ IdleRotation /\ IdlePick /\ IdleWorkers /\ IdleParallel
NextCB ==
  \/ CBRecordSuccess /\ UNCHANGED <<retryVars, enVars, igVars, gsVars, ytVars, thVars, bpVars, wtVars, krVars, pkVars, cwVars, psVars>>
  \/ CBRecordFailure /\ UNCHANGED <<retryVars, enVars, igVars, gsVars, ytVars, thVars, bpVars, wtVars, krVars, pkVars, cwVars, psVars>>
  \/ CBCanExecute /\ UNCHANGED <<retryVars, enVars, igVars, gsVars, ytVars, thVars, bpVars, wtVars, krVars, pkVars, cwVars, psVars>>
  \/ CBCall /\ UNCHANGED <<retryVars, enVars, igVars, gsVars, ytVars, thVars, bpVars, wtVars, krVars, pkVars, cwVars, psVars>>
  \/ CBIsHealthy /\ UNCHANGED <<retryVars, enVars, igVars, gsVars, ytVars, thVars, bpVars, wtVars, krVars, pkVars, cwVars, psVars>>
  \/ CBTick /\ UNCHANGED <<retryVars, enVars, igVars, gsVars, ytVars, thVars, bpVars, wtVars, krVars, pkVars, cwVars, psVars>>
SpecCB == InitCB /\ [][NextCB]_vars

InitEnrich == StartEnrich /\ IdleRetry /\ IdleCB /\ IdleIG /\ IdleGS /\ IdleYT /\ IdleTH /\ IdleBatch /\ IdleWeight /\ IdleRotation /\ IdlePick /\ IdleWorkers /\ IdleParallel
NextEnrich ==
  \/ OrchestratorInsert /\ UNCHANGED <<retryVars, cbVars, igVars, gsVars, ytVars, thVars, bpVars, wtVars, krVars, pkVars, cwVars, psVars>>
  \/ ProcessRecord /\ UNCHANGED <<retryVars, cbVars, igVars, gsVars, ytVars, thVars, bpVars, wtVars, krVars, pkVars, cwVars, psVars>>
SpecEnrich == InitEnrich /\ [][NextEnrich]_vars

InitIG == StartIG /\ IdleRetry /\ IdleCB /\ IdleEnrich /\ IdleGS /\ IdleYT /\ IdleTH /\ IdleBatch /\ IdleWeight /\ IdleRotation /\ IdlePick /\ IdleWorkers /\ IdleParallel
NextIG ==
  \/ IGBegin /\ UNCHANGED <<retryVars, cbVars, enVars, gsVars, ytVars, thVars, bpVars, wtVars, krVars, pkVars, cwVars, psVars>>
  \/ IGAttempt /\ UNCHANGED <<retryVars, cbVars, enVars, gsVars, ytVars, thVars, bpVars, wtVars, krVars, pkVars, cwVars, psVars>>
  \/ IGFinish /\ UNCHANGED <<retryVars, cbVars, enVars, gsVars, ytVars, thVars, bpVars, wtVars, krVars, pkVars, cwVars, psVars>>
SpecIG == InitIG /\ [][NextIG]_vars

InitGS == StartGS /\ IdleCB /\ IdleEnrich /\ IdleIG /\ IdleYT /\ IdleTH /\ IdleBatch /\ IdleWeight /\ IdleRotation /\ IdlePick /\ IdleWorkers /\ IdleParallel
NextGS ==
  \/ GSBegin /\ UNCHANGED <<cbVars, enVars, igVars, ytVars, thVars, bpVars, wtVars, krVars, pkVars, cwVars, psVars>>
  \/ GSFetch /\ UNCHANGED <<cbVars, enVars, igVars, ytVars, thVars, bpVars, wtVars, krVars, pkVars, cwVars, psVars>>
  \/ GSAppendResult /\ UNCHANGED <<cbVars, enVars, igVars, ytVars, thVars, bpVars, wtVars, krVars, pkVars, cwVars, psVars>>
  \/ GSConfigurationError /\ UNCHANGED <<cbVars, enVars, igVars, ytVars, thVars, bpVars, wtVars, krVars, pkVars, cwVars, psVars>>
  \/ GSReturn /\ UNCHANGED <<cbVars, enVars, igVars, ytVars, thVars, bpVars, wtVars, krVars, pkVars, cwVars, psVars>>
SpecGS == InitGS /\ [][NextGS]_vars

InitYT == StartYT /\ IdleCB /\ IdleEnrich /\ IdleIG /\ IdleGS /\ IdleTH /\ IdleBatch /\ IdleWeight /\ IdleRotation /\ IdlePick /\ IdleWorkers /\ IdleParallel
NextYT ==
  \/ YTBegin /\ UNCHANGED <<cbVars, enVars, igVars, gsVars, thVars, bpVars, wtVars, krVars, pkVars, cwVars, psVars>>
  \/ YTSearch /\ UNCHANGED <<cbVars, enVars, igVars, gsVars, thVars, bpVars, wtVars, krVars, pkVars, cwVars, psVars>>
  \/ YTAfterSearch /\ UNCHANGED <<cbVars, enVars, igVars, gsVars, thVars, bpVars, wtVars, krVars, pkVars, cwVars, psVars>>
  \/ YTFetch /\ UNCHANGED <<cbVars, enVars, igVars, gsVars, thVars, bpVars, wtVars, krVars, pkVars, cwVars, psVars>>
  \/ YTAppendResult /\ UNCHANGED <<cbVars, enVars, igVars, gsVars, thVars, bpVars, wtVars, krVars, pkVars, cwVars, psVars>>
  \/ YTConfigurationError /\ UNCHANGED <<cbVars, enVars, igVars, gsVars, thVars, bpVars, wtVars, krVars, pkVars, cwVars, psVars>>
  \/ YTReturn /\ UNCHANGED <<cbVars, enVars, igVars, gsVars, thVars, bpVars, wtVars, krVars, pkVars, cwVars, psVars>>
SpecYT == InitYT /\ [][NextYT]_vars

InitTH == StartTH /\ IdleRetry /\ IdleCB /\ IdleEnrich /\ IdleIG /\ IdleGS /\ IdleYT /\ IdleBatch /\ IdleWeight /\ IdleRotation /\ IdlePick /\ IdleWorkers /\ IdleParallel
NextTH ==
  \/ THStart /\ UNCHANGED <<retryVars, cbVars, enVars, igVars, gsVars, ytVars, bpVars, wtVars, krVars, pkVars, cwVars, psVars>>
  \/ THBegin /\ UNCHANGED <<retryVars, cbVars, enVars, igVars, gsVars, ytVars, bpVars, wtVars, krVars, pkVars, cwVars, psVars>>
  \/ THAttempt /\ UNCHANGED <<retryVars, cbVars, enVars, igVars, gsVars, ytVars, bpVars, wtVars, krVars, pkVars, cwVars, psVars>>
  \/ THReturn /\ UNCHANGED <<retryVars, cbVars, enVars, igVars, gsVars, ytVars, bpVars, wtVars, krVars, pkVars, cwVars, psVars>>
SpecTH == InitTH /\ [][NextTH]_vars

\* The store receives items while the post-processor handles one batch.
InitBatch ==
  /\ StartEnrich /\ StartBatch
  /\ IdleRetry /\ IdleCB /\ IdleIG /\ IdleGS /\ IdleYT /\ IdleTH /\ IdleWeight
  /\ IdleRotation /\ IdlePick /\ IdleWorkers /\ IdleParallel
NextBatch ==
  \/ OrchestratorInsert /\ UNCHANGED <<retryVars, cbVars, igVars, gsVars, ytVars, thVars, bpVars, wtVars, krVars, pkVars, cwVars, psVars>>
  \/ BatchStart /\ UNCHANGED <<retryVars, cbVars, igVars, gsVars, ytVars, thVars, wtVars, krVars, pkVars, cwVars, psVars>>
  \/ BatchOddRecord /\ UNCHANGED <<retryVars, cbVars, igVars, gsVars, ytVars, thVars, wtVars, krVars, pkVars, cwVars, psVars>>
  \/ BatchRecord /\ UNCHANGED <<retryVars, cbVars, igVars, gsVars, ytVars, thVars, wtVars, krVars, pkVars, cwVars, psVars>>
  \/ BatchReturn /\ UNCHANGED <<retryVars, cbVars, igVars, gsVars, ytVars, thVars, wtVars, krVars, pkVars, cwVars, psVars>>
SpecBatch == InitBatch /\ [][NextBatch]_vars

InitWeight ==
  /\ StartWeight
  /\ IdleRetry /\ IdleCB /\ IdleEnrich /\ IdleIG /\ IdleGS /\ IdleYT /\ IdleTH /\ IdleBatch
  /\ IdleRotation /\ IdlePick /\ IdleWorkers /\ IdleParallel
NextWeight ==
  CalculateWeight
    /\ UNCHANGED <<retryVars, cbVars, enVars, igVars, gsVars, ytVars, thVars, bpVars, krVars, pkVars, cwVars, psVars>>
SpecWeight == InitWeight /\ [][NextWeight]_vars

IdleOthers ==
  /\ IdleRetry /\ IdleCB /\ IdleEnrich /\ IdleIG /\ IdleGS /\ IdleYT /\ IdleTH
  /\ IdleBatch /\ IdleWeight /\ IdleParallel
OtherVars == <<retryVars, cbVars, enVars, igVars, gsVars, ytVars, thVars, bpVars, wtVars,
               psVars>>

\* The selection functions of the two scrapers on their own.
InitPick == StartPick /\ IdleOthers /\ IdleRotation /\ IdleWorkers
NextPick ==
  \/ LoginNextAccount /\ UNCHANGED <<OtherVars, krVars, cwVars>>
  \/ GetNextAccount /\ UNCHANGED <<OtherVars, krVars, cwVars>>
  \/ GetNextProxy /\ UNCHANGED <<OtherVars, krVars, cwVars>>

\* Workers of a pool, each calling get_next_key and then record_request on
\* the one manager; a thread switch can fall between any two of the steps.
InitWorkers == StartWorkers /\ IdleOthers /\ IdlePick
NextWorkers ==
  \/ \E w \in Workers : SelectKey(w) /\ UNCHANGED <<OtherVars, pkVars>>
  \/ \E w \in Workers : LoadIndex(w) /\ UNCHANGED <<OtherVars, pkVars>>
  \/ \E w \in Workers : StoreIndex(w) /\ UNCHANGED <<OtherVars, pkVars>>
  \/ \E w \in Workers : LoadRequests(w) /\ UNCHANGED <<OtherVars, pkVars>>
  \/ \E w \in Workers : StoreRequests(w) /\ UNCHANGED <<OtherVars, pkVars>>
  \/ \E w \in Workers : LoadErrors(w) /\ UNCHANGED <<OtherVars, pkVars>>
  \/ \E w \in Workers : StoreErrors(w) /\ UNCHANGED <<OtherVars, pkVars>>
SpecWorkers == InitWorkers /\ [][NextWorkers]_vars
SpecPick == InitPick /\ [][NextPick]_vars

\* One run of the parallel Google search scraper.
InitParallel ==
  /\ StartParallel
  /\ IdleRetry /\ IdleCB /\ IdleEnrich /\ IdleIG /\ IdleGS /\ IdleYT /\ IdleTH
  /\ IdleBatch /\ IdleWeight /\ IdleRotation /\ IdlePick /\ IdleWorkers
psOtherVars ==
  <<retryVars, cbVars, enVars, igVars, gsVars, ytVars, thVars, bpVars, wtVars, krVars,
    pkVars, cwVars>>
NextParallel ==
  \/ \E i \in Tasks : ProcessCelebrity(i) /\ UNCHANGED psOtherVars
  \/ \E i \in Tasks : StoreCount(i) /\ UNCHANGED psOtherVars
  \/ \E i \in Tasks : CollectResult(i) /\ UNCHANGED psOtherVars
  \/ \E i \in Tasks : CatchWorker(i) /\ UNCHANGED psOtherVars
  \/ StoreCaught /\ UNCHANGED psOtherVars
  \/ ParallelReturn /\ UNCHANGED psOtherVars
SpecParallel == InitParallel /\ [][NextParallel]_vars

\* A rotation manager in use: selections, recorded requests, time passing.
InitRotation == StartRotation /\ IdleOthers /\ IdlePick /\ IdleWorkers
NextRotation ==
  \/ GetNextKey /\ UNCHANGED <<OtherVars, pkVars, cwVars>>
  \/ RecordRequest /\ UNCHANGED <<OtherVars, pkVars, cwVars>>
  \/ HourPasses /\ UNCHANGED <<OtherVars, pkVars, cwVars>>
SpecRotation == InitRotation /\ [][NextRotation]_vars

\* should_skip_key on a manager with any statistics
InitSkip == StartSkip /\ IdleOthers /\ IdlePick /\ IdleWorkers
NextSkip == ShouldSkipKey /\ UNCHANGED <<OtherVars, pkVars, cwVars>>
SpecSkip == InitSkip /\ [][NextSkip]_vars

\* Any one of the four collection runs.
InitRuns == InitGS \/ InitIG \/ InitTH \/ InitYT
NextRuns == NextGS \/ NextIG \/ NextTH \/ NextYT
SpecRuns == InitRuns /\ [][NextRuns]_vars

(***************************************************************************)
(* Properties of retry_with_backoff (SpecRetry)                            *)
(***************************************************************************)
\* The claims' own reading of the calls made so far.
IsResult(out) == out # Raise
FailedAttempt(out) == IsResult(out) /\ ~IsDoneResult(variant, out)
InvalidFailure(out) ==
  /\ IsResult(out)
  /\ ~out.success
  /\ out.error # NoText
  /\ \E i \in DOMAIN out.error : out.error[i] \in {"Invalid", "API key"}
RetryableFailure(out) == FailedAttempt(out) /\ ~InvalidFailure(out)
AllRetryable == history # <<>> /\ \A i \in DOMAIN history : RetryableFailure(history[i])

\* C2: retry_with_backoff never raises; whatever the attempts do, the call
\* returns a result record carrying a success flag.
RetryNeverRaises ==
  /\ rpc # "raised"
  /\ rpc = "returned" => retval \in FuncResults(variant, retval.n)

\* C3: a failure whose error text contains 'Invalid' or 'API key' is returned at
\* once: it is the last call made, it is the value returned, and no sleep
\* follows it (only the sleeps of the earlier attempts were taken).
RetryInvalidIsTerminal ==
  \A i \in DOMAIN history :
    InvalidFailure(history[i]) =>
      /\ i = Len(history)
      /\ rpc = "returned"
      /\ retval = history[i]
      /\ Len(sleeps) = i - 1

RetryInvalidWitness ==
  /\ max_retries = 3
  /\ Len(history) = 2
  /\ InvalidFailure(history[2])
  /\ history[2].error = TxtNoValidKeys
  /\ rpc = "returned"

\* C4: when every attempt returns a retryable failure, func is called exactly
\* max_retries times, max_retries - 1 sleeps are taken, the k-th (from 0) of
\* base_delay * 2^k, none after the last attempt, and the last attempt's result
\* is returned unchanged.
RetryExhaustSchedule ==
  AllRetryable =>
    /\ rpc # "raised"
    /\ Len(history) <= max_retries
    /\ Len(sleeps) = (IF Len(history) < max_retries THEN Len(history) ELSE max_retries - 1)
    /\ \A k \in 0..(Len(sleeps) - 1) : sleeps[k + 1] = base_delay * (2 ^ k)
    /\ rpc = "returned" =>
         /\ Len(history) = max_retries
         /\ retval = history[max_retries]

RetryExhaustWitness ==
  /\ AllRetryable
  /\ rpc = "returned"
  /\ max_retries = 3
  /\ base_delay = 2
  /\ sleeps = <<2, 4>>

(***************************************************************************)
(* Properties of the circuit breakers (SpecCB)                             *)
(***************************************************************************)
\* C5: from a closed breaker with count 0, after k failures recorded in a row
\* the breaker is open iff k >= failure_threshold, and one record_success (a
\* call that succeeds, for the Threads breaker) puts the count back to 0.
CBOpensAtThreshold ==
  /\ cb_kind = "instagram" => (cb.is_open <=> cb_streak >= cb.failure_threshold)
  /\ cb_kind = "threads" => (tcb.is_open <=> cb_streak >= tcb.failure_threshold)
  /\ cb_op = "record_success" => cb.failure_count = 0
  /\ cb_op = "call_ok" => tcb.failures = 0

CBOpensWitness ==
  /\ cb_kind = "instagram"
  /\ cb.failure_threshold = 3
  /\ cb_op = "record_failure"
  /\ cb_streak = 3
  /\ ~cb_prev.is_open
  /\ cb.is_open

\* C6: on an open breaker can_execute (is_healthy) returns false and changes
\* nothing while the time since the last failure is <= timeout; called after
\* more than timeout it returns true, closes the breaker and zeroes the count.
CBCooldownGate ==
  /\ (cb_op = "can_execute" /\ cb_prev.is_open) =>
       IF cb_at - cb_prev.last_failure_time <= cb_prev.timeout
         THEN cb_ret = FALSE /\ cb = cb_prev
         ELSE cb_ret = TRUE /\ ~cb.is_open /\ cb.failure_count = 0
  /\ (cb_op = "is_healthy" /\ cb_prev.is_open) =>
       IF cb_at - cb_prev.last_failure_time <= cb_prev.timeout
         THEN cb_ret = FALSE /\ tcb = cb_prev
         ELSE cb_ret = TRUE /\ ~tcb.is_open /\ tcb.failures = 0

CBCooldownWitness ==
  /\ cb_op = "can_execute"
  /\ cb_prev.is_open
  /\ cb_prev.timeout = 2
  /\ cb_at - cb_prev.last_failure_time = 3
  /\ cb_ret = TRUE
  /\ ~cb.is_open

\* C39: whatever sequence of public calls was made on a breaker (Instagram:
\* record_success, record_failure, can_execute; Threads: call, is_healthy),
\* is_open holds iff the failure count is >= failure_threshold, and an open
\* breaker has its last_failure_time set.
CBOpenIffCount ==
  /\ cb_kind = "instagram" =>
       /\ cb.is_open <=> cb.failure_count >= cb.failure_threshold
       /\ cb.is_open => cb.last_failure_time # NoTime
  /\ cb_kind = "threads" =>
       /\ tcb.is_open <=> tcb.failures >= tcb.failure_threshold
       /\ tcb.is_open => tcb.last_failure_time # NoTime

\* A Threads breaker of threshold 2 whose fifth call, the second failing one in
\* a row, opened it some time after an earlier failure.
CBOpenIffCountWitness ==
  /\ cb_kind = "threads"
  /\ tcb.failure_threshold = 2
  /\ cb_op = "call_failed"
  /\ cb_n = 5
  /\ tcb.failures = 2
  /\ tcb.is_open
  /\ cb_prev.failures = 1
  /\ ~cb_prev.is_open
  /\ cb_prev.last_failure_time > tcb.timeout

(***************************************************************************)
(* Properties of the enrichment pipeline (SpecEnrich)                      *)
(***************************************************************************)
\* C1: when the feed delivers every mutation of a SourceRecord exactly once
\* (no stream record is handed over twice), the post-processor updates the
\* record exactly once: no record ever receives a second update.
EnrichUpdatesOnce ==
  en_redelivered = 0 => \A k \in Keys : en_updates[k] <= 1


\* C7: in the Instagram run, a celebrity with a handle that is taken after
\* failure_threshold (5) failures in a row were recorded, and within timeout
\* seconds of the last failure, is answered rate_limited without any call of
\* Profile.from_username.
IGTrippedRefuses ==
  (ig_guarded /\ ~Falsy(ig_handle)) =>
     /\ ig_pc # "attempt"
     /\ ig_fetches = 0
     /\ ig_last.reason = "rate_limited"

\* C9: taking a celebrity without a handle answers skipped, fetches nothing,
\* logs in to no account, writes no item and leaves the circuit breaker and
\* processed_profiles as they were.
IGSkipFrame ==
  [][(ig_pc = "next" /\ ig_n' = ig_n + 1 /\ Falsy(ig_handle')) =>
       /\ ig_pc' = "next"
       /\ ig_last'.status = "skipped"
       /\ ig_fetches' = 0
       /\ UNCHANGED <<ig_cb, processed_profiles, account_index, ig_written>>]_vars

IGSkipWitness ==
  /\ Falsy(ig_handle)
  /\ ig_last.status = "skipped"
  /\ ig_cb.failure_count > 0
  /\ processed_profiles # {}

\* C10 as stated: a celebrity whose handle was scraped successfully earlier in
\* the run is answered duplicate, with no fetch.
IGRepeatAnsweredDuplicate ==
  ig_seen_before =>
     /\ ig_pc # "attempt"
     /\ ig_fetches = 0
     /\ ig_last.reason = "duplicate"

\* C10, amended: a celebrity whose handle was scraped successfully earlier in
\* the run is never fetched again: it is answered rate_limited when the circuit
\* breaker refuses it and duplicate otherwise; and no username has more than
\* one item put in a run.
IGRepeatNeverRefetched ==
  /\ ig_seen_before =>
       /\ ig_pc # "attempt"
       /\ ig_fetches = 0
       /\ ig_last.status = "failed"
       /\ ig_last.reason =
            IF can_execute(ig_cb, ig_now) THEN "duplicate" ELSE "rate_limited"
  /\ \A h \in Handles : ig_written[h] <= 1

IGRepeatWitness ==
  /\ ig_seen_before
  /\ ig_last.reason = "rate_limited"
  /\ ig_written[ig_handle] = 1


GSSubjectDone == gs_pc \in {"next", "done"}

\* C8 as stated: when the first fetch of a celebrity is answered HTTP 429 and
\* the second HTTP 200, retry_with_backoff sleeps once, for 1s, the entry of
\* the celebrity has status success and one item is put.
GSRetryThenSuccess ==
  (Len(gs_answers) >= 2 /\ gs_answers[1] = "429" /\ gs_answers[2] \in Http200) =>
     /\ sleeps = <<1>>
     /\ GSSubjectDone => (gs_status = "success" /\ gs_puts = 1)

\* C8, amended: when the first fetch of a celebrity is answered HTTP 429 and
\* the second HTTP 200 with a result body, retry_with_backoff sleeps once, for
\* base_delay = 1s; the entry of the celebrity has status success with exactly
\* one item put if put_item succeeds on one of its 3 attempts, and status
\* error with no item put if all 3 fail.
GSRetryThenWritten ==
  (Len(gs_answers) >= 2 /\ gs_answers[1] = "429" /\ gs_answers[2] = "200") =>
     /\ sleeps = <<1>>
     /\ Len(gs_answers) = 2
     /\ GSSubjectDone =>
          IF gs_put_failures < WriteMaxRetries
            THEN gs_status = "success" /\ gs_puts = 1
            ELSE gs_status = "error" /\ gs_puts = 0

GSRetryThenWrittenWitness ==
  /\ gs_answers = <<"429", "200">>
  /\ GSSubjectDone
  /\ gs_put_failures = 1
  /\ gs_status = "success"
  /\ gs_puts = 1
  /\ sleeps = <<1>>

\* An item as the orchestrators must leave it: weight and sentiment unset.
Unscored(item) == item.weight = Null /\ item.sentiment = None

\* C11: in every collection run (Google, Instagram, Threads, YouTube) an item
\* is put into the table only for a celebrity whose fetch ended in success,
\* every item put has weight and sentiment null, and a celebrity whose fetch
\* failed has no item put.
RunsWriteOnlyAfterSuccess ==
  /\ gs_put # NoItem =>
       /\ gs_answers # <<>> /\ gs_answers[Len(gs_answers)] = "200"
       /\ Unscored(gs_put)
  /\ yt_put # NoItem =>
       /\ yt_channel_id # None
       /\ yt_fetch # <<>> /\ yt_fetch[Len(yt_fetch)] = "ok"
       /\ Unscored(yt_put)
  /\ ig_put # NoItem =>
       /\ ig_last = [status |-> "success", reason |-> "success"]
       /\ ig_handle \in ig_fetched_ok
       /\ Unscored(ig_put)
  /\ th_put # NoItem =>
       /\ th_answers # <<>> /\ th_answers[Len(th_answers)] = "200"
       /\ Unscored(th_put)
  /\ (gs_pc = "next" /\ gs_status = "error" /\ gs_put_failures = 0) => gs_put = NoItem
  /\ (yt_pc = "next" /\ yt_status \in {"error", "not_found"} /\ yt_put_failures = 0)
       => yt_put = NoItem
  /\ (ig_pc = "next" /\ ig_last.status \in {"failed", "skipped"}) => ig_put = NoItem
  /\ (th_pc = "next" /\ th_status \in {"error", "skipped"}) => th_put = NoItem

RunsWriteWitness ==
  /\ th_pc = "next"
  /\ th_answers = <<"429", "200">>
  /\ th_status = "success"
  /\ th_put = ThreadsItem

\* C12: when get_next_key returns None the fetch of the celebrity is recorded
\* as failed for lack of credentials with no request sent and no retry, and
\* the run stops: no later celebrity is attempted.
GSNoKeyStopsRun ==
  /\ (gs_answers # <<>> /\ gs_answers[1] = NoKey) =>
       /\ Len(gs_answers) = 1
       /\ sleeps = <<>>
       /\ GSSubjectDone => (gs_status = "error" /\ gs_put = NoItem)
  /\ gs_starved => gs_pc # "fetch"

\* C13: a failed put_item of the Google run is retried with exponential
\* backoff: at most max_retries calls with a sleep of base_delay * 2^k between
\* two calls (max_retries - 1 sleeps when all fail), the first call that
\* succeeds ends the retries, and when all calls fail the celebrity is
\* entered with status error, never success.
GSWriteRetried ==
  (GSSubjectDone /\ gs_answers # <<>> /\ gs_answers[Len(gs_answers)] = "200") =>
     /\ gs_put_calls \in 1..WriteMaxRetries
     /\ Len(gs_write_sleeps) = gs_put_calls - 1
     /\ \A k \in 1..Len(gs_write_sleeps) : gs_write_sleeps[k] = WriteBaseDelay * (2 ^ (k - 1))
     /\ IF gs_put_failures < WriteMaxRetries
          THEN gs_put_calls = gs_put_failures + 1 /\ gs_puts = 1 /\ gs_status = "success"
          ELSE /\ gs_put_calls = WriteMaxRetries
               /\ Len(gs_write_sleeps) = WriteMaxRetries - 1
               /\ gs_puts = 0
               /\ gs_status = "error"

GSWriteRetriedWitness ==
  /\ GSSubjectDone
  /\ gs_answers = <<"200">>
  /\ gs_put_failures = WriteMaxRetries
  /\ gs_put_calls = WriteMaxRetries
  /\ gs_write_sleeps = <<1, 2>>
  /\ gs_status = "error"

\* C14: processing the same notification twice leaves the same weight and the
\* same sentiment stored for the record as processing it once.
EnrichTwiceSame ==
  \A e \in en_seen : e.again => (e.weight2 = e.weight /\ e.sentiment2 = e.sentiment)

\* C15: whatever the order and the duplication in which the notifications of
\* a record are processed, the weight and sentiment stored for it are those
\* that processing each notification once in creation order stores: the
\* values the first update stored are never replaced by different ones.
EnrichOrderFree ==
  \A k \in Keys :
    en_first[k] # NoValue =>
      /\ en_store[k].weight = en_first[k].weight
      /\ en_store[k].sentiment = en_first[k].sentiment

\* C16: an update of the post-processor touches only the record whose key is
\* the key of a notification, and changes only weight, sentiment and
\* updated_at on it: raw_text, source and the other attributes of the record,
\* and every other record, are unchanged.
EnrichFrame ==
  [][\A k \in Keys :
       IF en_updates'[k] # en_updates[k]
         THEN /\ \E rec \in en_feed : rec.key = k
              /\ \A j \in Keys \ {k} : en_updates'[j] = en_updates[j]
              /\ en_store[k] # NoItem
              /\ en_store'[k] = [en_store[k] EXCEPT !.weight = en_store'[k].weight,
                                                    !.sentiment = en_store'[k].sentiment,
                                                    !.updated_at = en_store'[k].updated_at]
         ELSE en_store'[k] = en_store[k] \/ en_store[k] = NoItem]_vars

EnrichFrameWitness ==
  /\ en_updates["c1|google_search#t1"] = 1
  /\ en_store["c1|google_search#t1"] = [GoogleItem EXCEPT !.weight = 35,
                                          !.sentiment = "positive", !.updated_at = 1]
  /\ en_store["c2|instagram#t2"] = InstagramItem

\* The records of the batch that fared as `kinds`.
Fared(kinds) == Cardinality({i \in 1..Len(bp_outcomes) : bp_outcomes[i] \in kinds})

\* C17: in a batch of the post-processor a record whose processing fails
\* (unreadable record, update_item raising) does not stop the batch: every
\* record is handled, the response has statusCode 200, and success + errors
\* is the number of records.
BatchNeverStops ==
  /\ bp_counts.success + bp_counts.errors = bp_idx
  /\ Len(bp_outcomes) = bp_idx
  /\ bp_counts.errors = Fared({"malformed", "update_failed"})
  /\ bp_counts.success = Fared({"skipped", "processed"})
  /\ (bp_pc = "done" /\ bp_code # 400) =>
       /\ bp_code = 200
       /\ bp_idx = bp_total
       /\ bp_counts.success + bp_counts.errors = bp_total

BatchNeverStopsWitness ==
  /\ bp_pc = "done"
  /\ bp_code = 200
  /\ bp_outcomes = <<"update_failed", "processed">>
  /\ bp_counts = [success |-> 1, errors |-> 1]
  /\ en_updates["c1|google_search#t1"] = 1

\* C18: the weight is 0.5 * min(n / 10, 1) + 0.5 * r rounded to 2 decimals,
\* with n the number of non-empty top-level fields of the payload and r the
\* reliability of the first table domain contained in the source (0.5 when
\* none is); it lies in [0, 1], completeness is 0 for an empty payload
\* object, and the weight is 0.55 for n = 2, r = 0.9.
WeightFormula ==
  wt_pc = "returned" =>
    LET n == IF wt_raw_text.valid THEN wt_raw_text.fields ELSE 0
        r == reliability_score(wt_source)
        exact == 50 * (IF n < 10 THEN n ELSE 10) + 5 * r   \* in thousandths
    IN  /\ 10 * wt_weight - exact \in (0 - 5)..5
        /\ wt_weight \in 0..100
        /\ (n = 2 /\ r = 90) => wt_weight = 55

\* C19: under round_robin with N >= 1 keys, the i-th and the (i+N)-th results
\* of get_next_key are the same key, and any N consecutive calls return each
\* key exactly once, whatever record_request calls are interleaved.
RoundRobinCycles ==
  (strategy = "round_robin" /\ keys >= 1) =>
     /\ \A i \in 1..Len(kr_issued) :
          i + keys <= Len(kr_issued) => kr_issued[i] = kr_issued[i + keys]
     /\ \A i \in 1..Len(kr_issued) :
          i + keys - 1 <= Len(kr_issued) =>
            \A k \in 1..keys :
              Cardinality({j \in i..(i + keys - 1) : kr_issued[j] = k}) = 1

RoundRobinWitness ==
  /\ strategy = "round_robin"
  /\ keys = 2
  /\ kr_issued = <<1, 2, 1>>
  /\ kr_recorded = 2
  /\ key_stats[1].errors = 1

\* C20: should_skip_key(key) is true iff the key has at least one recorded
\* request and errors * 100 / requests >= the threshold; it is false for a
\* key without requests and for a key the manager does not know, and it
\* leaves the statistics as they were.
SkipIffOverThreshold ==
  kr_skip # NoValue =>
    /\ kr_skip.result =
         (/\ kr_skip.key \in 1..keys
          /\ kr_skip.before[kr_skip.key].requests >= 1
          /\ kr_skip.before[kr_skip.key].errors * 100
               >= rate_limit_threshold * kr_skip.before[kr_skip.key].requests)
    /\ key_stats = kr_skip.before

\* The last recorded failure of the key is a rate limit less than / not more
\* than an hour old.
LimitedYoung(st) == st.last_error = "RATE_LIMIT" /\ st.age = "fresh"
LimitedRecent(st) == st.last_error = "RATE_LIMIT" /\ st.age \in {"fresh", "hour"}

\* C21: under the adaptive strategy get_next_key never returns a key whose
\* most recently recorded failure is a rate limit younger than 1 hour while
\* some key is not in that state; when every key is in that state the call
\* clears the last-error state of all keys and returns the round-robin key.
AdaptiveExcludesYoung ==
  [][(strategy = "adaptive" /\ keys >= 1 /\ kr_issued' # kr_issued) =>
       LET k == kr_issued'[Len(kr_issued')] IN
       IF \E j \in 1..keys : ~LimitedYoung(key_stats[j])
         THEN ~LimitedYoung(key_stats[k])
         ELSE /\ \A j \in 1..keys :
                   key_stats'[j].last_error = None /\ key_stats'[j].age = "none"
              /\ k = (current_index % keys) + 1]_vars

\* C21 as amended: the same with "not older than 1 hour" for "younger than 1
\* hour": a rate limit recorded exactly one hour ago still excludes the key.
AdaptiveExcludesRecent ==
  [][(strategy = "adaptive" /\ keys >= 1 /\ kr_issued' # kr_issued) =>
       LET k == kr_issued'[Len(kr_issued')] IN
       IF \E j \in 1..keys : ~LimitedRecent(key_stats[j])
         THEN ~LimitedRecent(key_stats[k])
         ELSE /\ \A j \in 1..keys :
                   key_stats'[j].last_error = None /\ key_stats'[j].age = "none"
              /\ k = (current_index % keys) + 1]_vars

AdaptiveWitness ==
  /\ strategy = "adaptive"
  /\ keys = 2
  /\ kr_issued = <<1, 2, 2>>
  /\ LimitedRecent(key_stats[1])
  /\ key_stats[2].requests = 0

\* C22: under the least_used strategy get_next_key returns a key whose
\* request count is minimal among all keys, the one loaded first among those
\* tied at the minimum, and the call changes no statistics.
LeastUsedFirstMinimum ==
  [][(strategy = "least_used" /\ keys >= 1 /\ kr_issued' # kr_issued) =>
       LET k == kr_issued'[Len(kr_issued')] IN
       /\ k \in 1..keys
       /\ \A j \in 1..keys : key_stats[k].requests <= key_stats[j].requests
       /\ \A j \in 1..keys : key_stats[j].requests = key_stats[k].requests => k <= j
       /\ key_stats' = key_stats]_vars

LeastUsedWitness ==
  /\ strategy = "least_used"
  /\ keys = 2
  /\ kr_issued = <<1, 2, 1>>
  /\ key_stats[1].requests = 1
  /\ key_stats[2].requests = 1

\* C23: a not-found answer is terminal. In the Threads scraper an HTTP 404 on
\* any attempt returns status not_found at once, in the Instagram scraper a
\* profile-not-exists answer returns profile_not_found at once; no further
\* attempt is made for the subject and no backoff sleep follows.
NotFoundTerminal ==
  [][/\ (Len(th_answers') = Len(th_answers) + 1 /\ th_answers'[Len(th_answers')] = "404")
          => (/\ th_result' = "not_found"
              /\ th_pc' # "attempt"
              /\ \A i \in (Len(th_sleeps) + 1)..Len(th_sleeps') :
                    th_sleeps'[i].kind = "proxy")
     /\ (th_pc' = "attempt")
          => (\A i \in 1..Len(th_answers') : th_answers'[i] # "404")
     /\ (Len(ig_answers') = Len(ig_answers) + 1 /\ ig_answers'[Len(ig_answers')] = "not_found")
          => (/\ ig_last' = [status |-> "failed", reason |-> "profile_not_found"]
              /\ ig_pc' # "attempt"
              /\ ig_sleeps' = ig_sleeps)
     /\ (ig_pc' = "attempt")
          => (\A i \in 1..Len(ig_answers') : ig_answers'[i] # "not_found")
    ]_vars

\* A 404 on the second attempt of a Threads subject, after a rate limit.
NotFoundTerminalWitness ==
  /\ th_answers = <<"429", "404">>
  /\ th_result = "not_found"
  /\ th_pc = "next"
  /\ Len(th_sleeps) = 1

\* C24: in the Instagram scraper a rate-limited attempt is followed by a
\* backoff sleep exactly when another attempt follows it, the one after
\* attempt k (counted from 0) lasting 10 * 2^k seconds; when all
\* INSTAGRAM_MAX_RETRIES attempts are rate limited, exactly that many fetches
\* are made and the result is a failure with status rate_limited.
IGRateLimitBackoff ==
  [][(Len(ig_answers') = Len(ig_answers) + 1
        /\ ig_answers'[Len(ig_answers')] = "rate_limited")
       => (/\ IF ig_pc' = "attempt"
                THEN ig_sleeps' = Append(ig_sleeps, 10 * (2 ^ Len(ig_answers)))
                ELSE ig_sleeps' = ig_sleeps
           /\ (\A i \in 1..Len(ig_answers') : ig_answers'[i] = "rate_limited")
                => (/\ Len(ig_sleeps') = (IF ig_pc' = "attempt" THEN Len(ig_answers')
                                                               ELSE Len(ig_answers') - 1)
                    /\ ig_pc' = "attempt" <=> Len(ig_answers') < INSTAGRAM_MAX_RETRIES
                    /\ ig_pc' # "attempt"
                         => (/\ ig_fetches' = INSTAGRAM_MAX_RETRIES
                             /\ ig_last' = [status |-> "failed", reason |-> "rate_limited"])))
    ]_vars

IGRateLimitWitness ==
  /\ ig_answers = <<"rate_limited", "rate_limited", "rate_limited">>
  /\ ig_sleeps = <<10, 20>>
  /\ ig_last = [status |-> "failed", reason |-> "rate_limited"]
  /\ ig_pc = "next"

\* C25: account and proxy rotation is cyclic. With N >= 1 entries the i-th
\* and (i+N)-th selections of login_next_account, _get_next_account and
\* _get_next_proxy are the same entry and consecutive selections follow load
\* order; with zero entries the selection is None and the index stays.
PicksCyclic ==
  \A f \in Selectors :
    LET n == pk_n[f]
        picks == pk_picks[f]
    IN  IF n >= 1
          THEN /\ \A i \in 1..Len(picks) : picks[i] \in 1..n
               /\ \A i \in 1..Len(picks) : i + n <= Len(picks) => picks[i] = picks[i + n]
               /\ \A i \in 1..(Len(picks) - 1) :
                    picks[i + 1] = (IF picks[i] = n THEN 1 ELSE picks[i] + 1)
          ELSE /\ \A i \in 1..Len(picks) : picks[i] = 0
               /\ pk_index[f] = 0

PicksCyclicWitness ==
  /\ pk_n["get_next_proxy"] = 2
  /\ pk_picks["get_next_proxy"] = <<1, 2, 1>>
  /\ pk_n["get_next_account"] = 0
  /\ pk_picks["get_next_account"] = <<0, 0>>
  /\ pk_n["login_next_account"] = 2
  /\ pk_picks["login_next_account"] = <<1, 2, 1>>

\* C26: the breaker is consulted before each attempt: in the Instagram
\* scraper no profile fetch starts while the breaker is open and its cooldown
\* has not expired, the remaining attempts of the subject during whose
\* retries it opened included.
IGNoFetchWhileOpen ==
  [][(Len(ig_answers') = Len(ig_answers) + 1) =>
       (ig_cb.is_open => ig_now - ig_cb.last_failure_time > ig_cb.timeout)]_vars

\* C27: once the Instagram breaker is open it stays open until a can_execute
\* call observes that more than timeout seconds have passed since the last
\* failure; no other operation, of the retry loop or otherwise, closes it.
IGOpenUntilCooldown ==
  [][(ig_cb.is_open /\ ~ig_cb'.is_open) =>
       (/\ ig_n' = ig_n + 1      \* the can_execute call that opens process_celebrity
        /\ ig_now - ig_cb.last_failure_time > ig_cb.timeout)]_vars

\* C28: every attempt outcome of the Instagram scraper updates the breaker: a
\* success calls record_success, every failed retryable attempt (rate limit,
\* login required, network or unexpected exception) calls record_failure, so
\* failure_threshold such attempts in a row open the breaker.
IGEveryOutcomeRecorded ==
  [][(Len(ig_answers') = Len(ig_answers) + 1) =>
       LET o == ig_answers'[Len(ig_answers')] IN
       /\ (o = "ok") => (ig_cb'.failure_count = 0 /\ ~ig_cb'.is_open)
       /\ (o \in {"rate_limited", "login_required", "error", "ok_then_error"})
            => (/\ ig_cb'.failure_count = ig_cb.failure_count + 1
                /\ ig_cb'.failure_count >= ig_cb'.failure_threshold => ig_cb'.is_open)
    ]_vars

\* C29: with key rotation enabled in the Google search run every fetch
\* attempt that obtained a key is recorded in the rotation manager exactly
\* once: the requests counters of all keys sum to the number of HTTP attempts
\* made, whatever their outcomes.
GSEveryAttemptRecorded ==
  (gs_pc = "done" /\ use_key_rotation) => gs_requests = gs_http

\* C30: when the manager is shared by workers calling get_next_key and
\* record_request concurrently no update is lost: after all workers finish,
\* each key's requests counter equals the number of record_request calls made
\* for it, its errors counter the number of failed ones, and the round-robin
\* index has advanced by the number of get_next_key calls.
WorkersLoseNothing ==
  (\A w \in Workers : cw_pc[w] = "done") =>
     /\ \A k \in 1..keys :
          /\ key_stats[k].requests = cw_calls[k].requests
          /\ key_stats[k].errors = cw_calls[k].errors
     /\ current_index = Len(kr_issued)

ThreeFields == [valid |-> TRUE, fields |-> 3, polarity |-> 0]

OddRecordSkipped ==
  [][(/\ bp_idx' = bp_idx + 1
      /\ bp_last' # NoItem
      /\ \/ bp_last'.eventName \notin {"INSERT", "MODIFY"}
         \/ bp_last'.NewImage = NoItem
         \/ bp_last'.key = None
         \/ bp_last'.NewImage.raw_text = NoPayload
         \/ bp_last'.NewImage.source = <<>>)
       => (/\ en_store' = en_store
           /\ en_updates' = en_updates
           /\ bp_outcomes' = Append(bp_outcomes, "processed")
           /\ bp_counts' = [bp_counts EXCEPT !.success = @ + 1])]_vars

\* A notification without source, handled after an item was scored.
OddRecordWitness ==
  /\ bp_last = StreamRecord(1, "MODIFY", "c2|instagram#t2", SourceRecord(JsonPayload, <<>>))
  /\ bp_outcomes = <<"processed", "processed">>
  /\ bp_counts = [success |-> 2, errors |-> 0]
  /\ en_updates["c1|google_search#t1"] = 1
  /\ en_store["c2|instagram#t2"] = NoItem

(***************************************************************************)
(* Properties of the YouTube run (SpecYT)                                  *)
(***************************************************************************)
\* C34: in the YouTube run a search that answers that no channel exists is
\* terminal: it is the only search call for the subject, no backoff sleep
\* follows it, no channel fetch and no store write are made, and the subject
\* is reported not_found.
YTNotFoundTerminal ==
  \A i \in 1..Len(yt_search) :
    yt_search[i] = "no_items" =>
       /\ Len(yt_search) = i
       /\ Len(yt_search_sleeps) < i
       /\ yt_fetch = <<>>
       /\ yt_put = NoItem
       /\ yt_pc # "search" => yt_status = "not_found"

(***************************************************************************)
(* Properties of the Threads run (SpecTH)                                  *)
(***************************************************************************)
\* The backoff sleeps among the sleeps of the current celebrity, in order.
BackoffSleeps == SelectSeq(th_sleeps, LAMBDA sl : sl.kind = "backoff")

\* C35: when every attempt of a Threads subject is answered 429, exactly
\* THREADS_MAX_RETRIES requests are sent, each with the next account and the
\* next proxy of the rotation, the backoff sleeps are those between the
\* attempts (THREADS_MAX_RETRIES - 1 of them, the k-th of base
\* THREAD_BACKOFF_BASE * 2^k), and the result is a failure.
THAllRateLimited ==
  (/\ th_pc \in {"next", "done"}
   /\ th_answers # <<>>
   /\ \A i \in 1..Len(th_answers) : th_answers[i] = "429")
    => /\ Len(th_answers) = THREADS_MAX_RETRIES
       /\ Len(th_picks) = THREADS_MAX_RETRIES
       /\ \A i \in 1..Len(th_picks) :
            th_picks[i] =
              <<Rotate(th_account_index - Len(th_picks) + i - 1, th_accounts),
                IF th_proxies = 0 THEN 0
                ELSE Rotate(th_proxy_index - Len(th_picks) + i - 1, th_proxies)>>
       /\ th_result = "failed"
       /\ th_status = "error"
       /\ Len(BackoffSleeps) = THREADS_MAX_RETRIES - 1
       /\ \A k \in 1..Len(BackoffSleeps) :
            BackoffSleeps[k].base = THREAD_BACKOFF_BASE * (2 ^ (k - 1))

\* The celebrity dict carries no handle in any of the handle fields.
NoSourceHandle(c) ==
  /\ Falsy(c.threads_handle)
  /\ Falsy(c.meta_handle)
  /\ Falsy(c.instagram_handle)
  /\ Falsy(c.handle)

\* What the handler does with a celebrity it skips: the entry appended is
\* 'skipped', no request is sent, neither rotation index moves, nothing is
\* put into the table, and the handler is back at the head of its loop.
SkippedUntouched ==
  /\ th_pc' = "next"
  /\ th_status' = "skipped"
  /\ th_counts' = [th_counts EXCEPT !.skipped = @ + 1]
  /\ th_answers' = <<>>
  /\ th_picks' = <<>>
  /\ th_account_index' = th_account_index
  /\ th_proxy_index' = th_proxy_index
  /\ th_put' = NoItem
  /\ th_metrics' = th_metrics

\* C36 as stated: a celebrity without threads_handle, without a handle in
\* the metadata and without instagram_handle or handle is recorded as
\* skipped; no request is sent for it, no index advances, nothing is written.
THNoHandleSkipped ==
  [][(th_n' = th_n + 1 /\ NoSourceHandle(th_cur')) => SkippedUntouched]_vars

\* C36, amended: the same for a celebrity that has in addition no name (absent
\* or empty); a non-empty name is turned into the handle.
THNoHandleNoNameSkipped ==
  [][(th_n' = th_n + 1 /\ NoSourceHandle(th_cur') /\ Falsy(th_cur'.name))
       => SkippedUntouched]_vars

\* A celebrity with empty handles and an empty name was skipped by a scraper
\* that has accounts and proxies.
THNoHandleWitness ==
  /\ th_pc = "next"
  /\ th_n = 1
  /\ th_cur # NoItem
  /\ NoSourceHandle(th_cur)
  /\ th_cur.name = ""
  /\ th_status = "skipped"
  /\ th_counts = [success |-> 0, errors |-> 0, skipped |-> 1]
  /\ th_accounts = MaxAccounts
  /\ th_proxies = MaxProxies
  /\ th_account_index = 0
  /\ th_proxy_index = 0
  /\ th_answers = <<>>
  /\ th_put = NoItem

\* C37: the metrics published at the end of a Threads run carry what the run
\* accumulated: the rate-limited count is the number of 429 answers received
\* and the retry count the number of attempts after the first, over all
\* celebrities (the counts scraper.metrics holds at that point).
THPublishedAccumulated ==
  (th_pc = "done" /\ th_code = 200) =>
    /\ th_published.rate_limited = th_metrics.rate_limited
    /\ th_published.retries = th_metrics.retries

(***************************************************************************)
(* Properties of the processed set of the Instagram run (SpecIG)           *)
(***************************************************************************)
\* C40: a handle is in the processed set only if this run has put a record
\* for it into the table, so that whenever a subject is answered 'duplicate' a
\* record for its handle written by this run exists.
ProcessedOnlyIfPersisted ==
  /\ \A h \in Handles : h \in processed_profiles => ig_written[h] > 0
  /\ (ig_pc \in {"next", "done"} /\ ig_n > 0 /\ ig_last.reason = "duplicate")
       => ig_written[ig_handle] > 0

(***************************************************************************)
(* Properties of the run summaries (SpecRuns)                              *)
(***************************************************************************)
\* C38: the summary of every run partitions the subjects considered: between
\* two subjects and at the end, the number of subjects taken is the sum of the
\* per-status counts (Instagram successful + failed + skipped; Threads
\* success + errors + skipped; Google search success + errors; YouTube
\* success + errors + not_found), whatever happened to each subject.
SummaryPartitions ==
  /\ ig_pc \in {"next", "done"} =>
       ig_n = ig_results.successful + ig_results.failed + ig_results.skipped
  /\ th_pc = "next" =>
       th_n = th_counts.success + th_counts.errors + th_counts.skipped
  /\ (th_pc = "done" /\ th_code = 200) =>
       th_total = th_counts.success + th_counts.errors + th_counts.skipped
  /\ gs_pc \in {"next", "done"} =>
       gs_n = gs_results.success + gs_results.errors
  /\ yt_pc \in {"next", "done"} =>
       yt_n = yt_results.success + yt_results.errors + yt_results.not_found

(***************************************************************************)
(* Properties of the parallel Google search scraper (SpecParallel)         *)
(***************************************************************************)
\* C31: when run() of the parallel scraper returns, stats['success'] +
\* stats['errors'] = stats['total'], and stats['success'] is the number of
\* results whose status is success.
ParallelCountsAll ==
  ps_pc = "done" =>
    /\ ps_stats.success + ps_stats.errors = ps_stats.total
    /\ ps_stats.success =
         Cardinality({i \in 1..Len(ps_results) : ps_results[i] = "success"})

====
